---- MODULE Spec2Model ----
(***************************************************************************)
(* Adaptive PDF rasterization compressor of PDFTools.                      *)
(*                                                                         *)
(*   - the config resolver, the size estimators and the multi-pass         *)
(*     compressPDFAdaptive of src/unnamed/part_000 (a pdfService.ts)       *)
(*   - the single-pass compressPDFAdaptive of src/services/pdfService.ts   *)
(*                                                                         *)
(* Numbers.  The source computes in IEEE-754 doubles.  Scales and          *)
(* qualities are modelled as exact decimals in units of 1/10000 (0.68 is   *)
(* 6800), DPI values, byte counts and progress values as integers.  Every  *)
(* product the source forms on these inputs is then an exact integer       *)
(* expression; the only places where the double and the exact decimal      *)
(* differ in their rounded result are the two toFixed(2) ties listed in    *)
(* BinaryBelowTie.                                                         *)
(***************************************************************************)
EXTENDS Integers, Sequences, FiniteSets, TLC

\* ------------------------------------------------------------------------
\* Bounds of the model
\* ------------------------------------------------------------------------
MaxFileSize == 6      \* file.size ranges over 1..MaxFileSize
MaxPages == 2         \* pdf.numPages ranges over 1..MaxPages
MaxOrigK == 8         \* estimator originalSize: within 1 of k KiB, k in 0..MaxOrigK
MaxUrlLen == 26       \* short data URLs: page1DataUrl.length in 0..MaxUrlLen
MaxRawK == 3          \* long data URLs: a payload of 768*k bytes, k in 0..MaxRawK
MaxPageCount == 3     \* pageCount of the estimator ranges over 0..MaxPageCount
MaxAnPages == 4       \* numPages of a file the component analyses: 0..MaxAnPages
ItemSpread == 1       \* text items of a page: 0, or within ItemSpread of the threshold
MaxChanges == 3       \* slider changes while the preview is open
DebounceTicks == 2    \* clock ticks in the debounce delay of 200 ms
MaxKPages == 19       \* page count of the long file handed to the component
MaxOPages == 51       \* page count of the long file handed to ReorderPDF
OReach == 3           \* grid positions a drag picks up from or hovers over: the first OReach
MaxOCommits == 1      \* drags start while history holds at most MaxOCommits states
MaxOLoads == 2        \* getPdfPagePreviews calls pending at a time

\* ------------------------------------------------------------------------
\* Program constants
\* ------------------------------------------------------------------------
ScaleUnit == 10000    \* 1.0 as a scale or quality value
MaxSlider == 100      \* the slider's max attribute
DpiPerScale == 72     \* scale 1.0 is 72 DPI
SafetyFloor == 90     \* legibility floor of the multi-pass gate
SvcSafetyFloor == 72  \* floor of the single-pass gate
HeadLen == 23         \* 'data:image/jpeg;base64,'.length
PerPageOverhead == 2048
FixedOverhead == 5120
PreviewCap == 50      \* Math.min(numPages, 50) of getPdfPagePreviews
HistoryCap == 50      \* newHistory.length > 50 of commitToHistory

Levels == {"extreme", "recommended", "less"}

\* ------------------------------------------------------------------------
\* Arithmetic of the source
\* ------------------------------------------------------------------------
Max(a, b) == IF a >= b THEN a ELSE b
Min(a, b) == IF a <= b THEN a ELSE b

\* Math.round(num/den): nearest integer, halves towards +infinity
MathRound(num, den) == (2 * num + den) \div (2 * den)

\* Math.floor(num/den)
MathFloor(num, den) == num \div den

\* Decimal ties x.xx5 that the source's double expression produces just
\* below the tie: (0.6 + 1.4*0.25)*0.9 = 0.85499999999999998 and
\* (0.6 + 1.4*0.75)*0.9 = 1.4849999999999999; toFixed(2) rounds them down.
BinaryBelowTie == {8550, 14850}

\* Number(x.toFixed(2)) / parseFloat(x.toFixed(2)) on a value in 1/10000
ToFixed2(x) ==
  IF x \in BinaryBelowTie THEN x - 50 ELSE ((x + 50) \div 100) * 100

\* Math.round(scale * 72)
RoundDPI(s) == MathRound(s * DpiPerScale, ScaleUnit)

\* ------------------------------------------------------------------------
\* Config resolver (src/unnamed/part_000)
\* ------------------------------------------------------------------------
BaseScale(level) ==
  IF level = "extreme" THEN 8000 ELSE IF level = "recommended" THEN 14000 ELSE 20000

BaseQuality(level) ==
  IF level = "extreme" THEN 4000 ELSE IF level = "recommended" THEN 6000 ELSE 8000

\* getAdaptiveConfig with the 'recommended' band given the scale of 'less'
getAdaptiveConfigSlip(level, isTextHeavy) ==
  LET b == IF level = "recommended" THEN BaseScale("less") ELSE BaseScale(level)
      s == IF isTextHeavy THEN (b * 85) \div 100 ELSE b
      q == IF isTextHeavy THEN BaseQuality(level) - 1000 ELSE BaseQuality(level)
  IN [scale |-> ToFixed2(s), quality |-> ToFixed2(q), projectedDPI |-> RoundDPI(s)]

\* getAdaptiveConfig: projectedDPI is taken from the unrounded scale
getAdaptiveConfig(level, isTextHeavy) ==
  LET s == IF isTextHeavy THEN (BaseScale(level) * 85) \div 100 ELSE BaseScale(level)
      q == IF isTextHeavy THEN BaseQuality(level) - 1000 ELSE BaseQuality(level)
  IN [scale |-> ToFixed2(s), quality |-> ToFixed2(q), projectedDPI |-> RoundDPI(s)]

\* getInterpolatedConfig: minScale 0.6, maxScale 2.0, minQuality 0.3,
\* maxQuality 0.9, t = value/100; projectedDPI from the unrounded scale
getInterpolatedConfig(value, isTextHeavy) ==
  LET s0 == 6000 + (14000 * value) \div 100
      s == IF isTextHeavy THEN (s0 * 9) \div 10 ELSE s0
      q == 3000 + (6000 * value) \div 100
  IN [scale |-> ToFixed2(s), quality |-> ToFixed2(q), projectedDPI |-> RoundDPI(s)]

\* ------------------------------------------------------------------------
\* Size estimators (src/unnamed/part_000)
\* ------------------------------------------------------------------------
\* reductionTarget in percent
ReductionTarget(level, isTextHeavy) ==
  IF level = "extreme" THEN (IF isTextHeavy THEN 40 ELSE 60)
  ELSE IF level = "recommended" THEN (IF isTextHeavy THEN 20 ELSE 35)
  ELSE 15

calculateTargetSize(originalSize, level, isTextHeavy) ==
  MathFloor(originalSize * (100 - ReductionTarget(level, isTextHeavy)), 100)

\* calculateProjectedFileSize without the Math.min of line 654
calculateProjectedFileSizeNoClamp(urlLen, pageCount, originalFileSize, isTextHeavy) ==
  LET rawBytes == MathFloor((urlLen - HeadLen) * 3, 4)
      estimatedRasterSize ==
        rawBytes * pageCount + (PerPageOverhead * pageCount) + FixedOverhead
  IN IF estimatedRasterSize >= originalFileSize
       THEN originalFileSize
       ELSE MathFloor(estimatedRasterSize * 105, 100)

\* the estimate without the 5% allowance of line 654
calculateProjectedFileSizeNoPad(urlLen, pageCount, originalFileSize, isTextHeavy) ==
  LET rawBytes == MathFloor((urlLen - HeadLen) * 3, 4)
      estimatedRasterSize ==
        rawBytes * pageCount + (PerPageOverhead * pageCount) + FixedOverhead
  IN Min(estimatedRasterSize, originalFileSize)

\* page1DataUrl enters only through its length
calculateProjectedFileSize(urlLen, pageCount, originalFileSize, isTextHeavy) ==
  LET rawBytes == MathFloor((urlLen - HeadLen) * 3, 4)
      totalImageSize == rawBytes * pageCount
      overhead == (PerPageOverhead * pageCount) + FixedOverhead
      estimatedRasterSize == totalImageSize + overhead
  IN IF estimatedRasterSize >= originalFileSize
       THEN originalFileSize
       ELSE Min(MathFloor(estimatedRasterSize * 105, 100), originalFileSize)

\* ------------------------------------------------------------------------
\* State
\* ------------------------------------------------------------------------
VARIABLES
  \* multi-pass compressPDFAdaptive (src/unnamed/part_000), one call
  pc,            \* position of the call
  file,          \* [size, numPages]: the File and the document it holds
  level, ignoreSafety, customConfig,   \* arguments
  analysis,      \* result of analyzePDF
  scale, quality, projectedDPI,        \* locals of line 544
  passNo,        \* performCompressionPass calls entered so far
  passKind,      \* "none" | "first" | "fallback" | "squeeze"
  passScale, passQuality, passBase,    \* arguments of the running pass
  i,             \* loop variable of performCompressionPass
  rendering,     \* page being rendered and encoded, 0 when none
  newPdf,        \* pages appended to the pass's document, as source page numbers
  resultBytes,   \* [kind, len, pages]
  strategy,
  progress,      \* values handed to onProgress, in order
  renders,       \* pages rendered in this call
  passLens,      \* byteLength of each pass document saved so far, in order
  result,        \* the CompressionResult the promise resolved with
  error,         \* the error the promise rejected with
  \* single-pass compressPDFAdaptive (src/services/pdfService.ts), one call
  svcPc, svcFile, svcLevel, svcOverride, svcCustom,
  svcConfig,     \* const config of line 580
  svcI,          \* loop variable
  svcRendering,  \* page being rendered, 0 when none
  svcNewPdf,     \* pages appended, as source page numbers
  svcProgress,   \* values handed to onProgress, as [num, den] fractions
  svcResult, svcError,
  \* resolver harness
  cfgHeavy,      \* isTextHeavy argument
  cfgValue,      \* slider value argument
  cfgLevels,     \* [level, cfg]: getAdaptiveConfig results obtained so far
  cfgSlider,     \* getInterpolatedConfig result, NoConfig before the call
  \* estimator harness
  estIn,         \* [originalSize, level, isTextHeavy, urlLen, pageCount]
  estDone,       \* which of "target", "preview" have been computed
  estTarget,     \* calculateTargetSize result
  estTotal,      \* generatePreviewPair's metrics.estimatedTotalSize
  \* analyzePDF, one call
  anPc,
  anCaller,      \* "component" (the file-selection effect) or "compress"
  anNumPages,    \* pdf.numPages of the file handed to the call
  anI,           \* loop variable
  anPage,        \* page obtained by getPage and not yet read, 0 when none
  anTotal,       \* totalTextItems
  anRead,        \* [page, items] of every getTextContent resolved, in order
  anFailed,      \* the step whose rejection the catch block received
  anResult,      \* the value the promise resolved with
  \* ReadabilityPreview, one mounted instance
  pvPc,
  pvHeavy,       \* the isTextHeavy prop
  pvSlider,      \* sliderValue
  pvConfig,      \* currentConfig
  pvLoading,     \* loading
  pvImages,      \* the config the displayed images were rendered for
  pvEstimate,    \* the config the displayed sizeEstimate was computed for
  pvTimers,      \* armed timeouts: [id, cfg, left]
  pvRef,         \* debounceRef.current, 0 for null
  pvCalls,       \* generatePreviewPair calls in flight: [id, cfg]
  pvSince,       \* ticks since the last slider change, capped
  pvChanges,     \* slider changes so far: [val, gap]
  pvStarted,     \* generate calls started by a timeout: [change, cfg, elapsed]
  \* CompressPDF component
  kImpl,         \* the pdfService revision linked: "svc" (single-pass) or "multi"
  kFile,         \* file state: [id, size, numPages, heavy], NoFile for null
  kNextId,       \* id of the next file selected
  kLevel,        \* level
  kStatus,       \* status: [isProcessing, progress]
  kResult,       \* result, with the run it came from
  kShowPreview,  \* showPreview
  kPreviewConfig,\* previewConfig, NoConfig for null
  kAnalysis,     \* analysis: [isTextHeavy, done], with the file it came from
  kAnalyses,     \* analyzePDF promises pending: [id, heavy]
  kRun,          \* the compressPDFAdaptive call awaited by executeCompression
  kLog,          \* status.progress values shown while isProcessing, in order
  kDownloads,    \* downloads triggered: [file, selected, len, compressedSize, fileSize]
  \* ReorderPDF component
  oFile,         \* file state: [numPages, noContext], NoOFile for null
  oLoading,      \* loadingPreviews
  oItems,        \* items, each PageItem as its originalIndex
  oHistory,      \* history
  oHistoryIndex, \* historyIndex
  oLoads,        \* getPdfPagePreviews promises pending, as the files handed over
  oDrag,         \* the drag in progress: refs and the render its listeners closed over
  oSaving,       \* status.isProcessing
  oSaved         \* the last extractPages call: [file, indices]

cvars == <<pc, file, level, ignoreSafety, customConfig, analysis, scale, quality,
           projectedDPI, passNo, passKind, passScale, passQuality, passBase, i,
           rendering, newPdf, resultBytes, strategy, progress, renders, passLens,
           result, error>>

svars == <<svcPc, svcFile, svcLevel, svcOverride, svcCustom, svcConfig, svcI,
           svcRendering, svcNewPdf, svcProgress, svcResult, svcError>>

rvars == <<cfgHeavy, cfgValue, cfgLevels, cfgSlider>>

evars == <<estIn, estDone, estTarget, estTotal>>

avars == <<anPc, anCaller, anNumPages, anI, anPage, anTotal, anRead, anFailed, anResult>>

pvars == <<pvPc, pvHeavy, pvSlider, pvConfig, pvLoading, pvImages, pvEstimate,
           pvTimers, pvRef, pvCalls, pvSince, pvChanges, pvStarted>>

kvars == <<kImpl, kFile, kNextId, kLevel, kStatus, kResult, kShowPreview,
           kPreviewConfig, kAnalysis, kAnalyses, kRun, kLog, kDownloads>>

ovars == <<oFile, oLoading, oItems, oHistory, oHistoryIndex, oLoads, oDrag,
           oSaving, oSaved>>

\* the user-interface components
uvars == <<pvars, kvars, ovars>>

vars == <<cvars, svars, rvars, evars, avars, uvars>>

\* ------------------------------------------------------------------------
\* Multi-pass compressPDFAdaptive (src/unnamed/part_000)
\* ------------------------------------------------------------------------
NoConfig == [scale |-> 0, quality |-> 0, projectedDPI |-> 0]   \* customConfig undefined

\* slider positions a caller's customConfig is drawn from
CustomSliderValues == {4, 46, 100}

CustomConfigs ==
  {getInterpolatedConfig(v, h) : v \in CustomSliderValues, h \in BOOLEAN}

FileSizes == 1..MaxFileSize
OutSizes == 1..(MaxFileSize + 1)    \* byteLength of a serialized pass document

\* a byte buffer: what it holds, its byteLength, and for a transcoded
\* document the source page behind each of its pages and the pass that made it
NoBytes == [kind |-> "empty", len |-> 0, pages |-> <<>>, pass |-> 0]
OriginalBytes(f) == [kind |-> "original", len |-> f.size, pages |-> <<>>, pass |-> 0]
PassBytes(n, len, pages) == [kind |-> "transcoded", len |-> len, pages |-> pages, pass |-> n]
NoResult == [data |-> NoBytes, status |-> "none", meta |-> <<>>]

ErrorKinds == {"getPage", "context", "render", "embed"}

\* a gate that lets every config through
GateBlocksNever(ignore, dpi) == FALSE

\* the gate with the floor itself rejected
GateBlocksAtFloor(ignore, dpi) == ~ignore /\ dpi <= SafetyFloor

\* line 557
GateBlocks(ignore, dpi) == ~ignore /\ dpi < SafetyFloor

\* the blocked record reporting the DPI recomputed from the scale, as the
\* other returns do
BlockedResultRecomputed(f, s, q, dpi) ==
  [data |-> NoBytes,
   status |-> "blocked",
   meta |-> [originalSize |-> f.size, compressedSize |-> 0, effectiveScale |-> s,
             effectiveQuality |-> q, iterations |-> 0,
             strategyUsed |-> "Safety Block", projectedDPI |-> RoundDPI(s)]]

\* lines 558-570
BlockedResult(f, s, q, dpi) ==
  [data |-> NoBytes,
   status |-> "blocked",
   meta |-> [originalSize |-> f.size, compressedSize |-> 0, effectiveScale |-> s,
             effectiveQuality |-> q, iterations |-> 0,
             strategyUsed |-> "Safety Block", projectedDPI |-> dpi]]

\* strategy.includes('Pass')
IncludesPass(st) == st \in {"First Pass", "Pass 2 Unsafe (Skipped)"}

\* the returned record without the guard of line 608
FinalResultNoGuard(f, bytes, s, q, st) ==
  [data |-> bytes,
   status |-> "success",
   meta |-> [originalSize |-> f.size, compressedSize |-> bytes.len,
             effectiveScale |-> ToFixed2(s), effectiveQuality |-> ToFixed2(q),
             iterations |-> IF IncludesPass(st) THEN 1 ELSE 2,
             strategyUsed |-> st,
             projectedDPI |-> RoundDPI(s)]]

\* the guard of line 608 comparing with > instead of >=
FinalResultStrictGuard(f, bytes, s, q, st) ==
  IF bytes.len > f.size
    THEN [data |-> OriginalBytes(f),
          status |-> "success",
          meta |-> [originalSize |-> f.size, compressedSize |-> f.size,
                    effectiveScale |-> 0, effectiveQuality |-> 0, iterations |-> 2,
                    strategyUsed |-> "Aborted (Safety Lock)",
                    projectedDPI |-> RoundDPI(s)]]
    ELSE FinalResultNoGuard(f, bytes, s, q, st)

\* lines 608-636: the final guard and the returned record
FinalResult(f, bytes, s, q, st) ==
  IF bytes.len >= f.size
    THEN [data |-> OriginalBytes(f),
          status |-> "success",
          meta |-> [originalSize |-> f.size, compressedSize |-> f.size,
                    effectiveScale |-> 0, effectiveQuality |-> 0, iterations |-> 2,
                    strategyUsed |-> "Aborted (Safety Lock)",
                    projectedDPI |-> RoundDPI(s)]]
    ELSE [data |-> bytes,
          status |-> "success",
          meta |-> [originalSize |-> f.size, compressedSize |-> bytes.len,
                    effectiveScale |-> ToFixed2(s), effectiveQuality |-> ToFixed2(q),
                    iterations |-> IF IncludesPass(st) THEN 1 ELSE 2,
                    strategyUsed |-> st,
                    projectedDPI |-> RoundDPI(s)]]

\* reportProgress that drops its base
ReportedProgressNoBase(base, idx, numPages) == MathRound(idx * 50, numPages)

\* reportProgress(base, 50)(i / numPages), line 573
ReportedProgress(base, idx, numPages) ==
  MathRound(base * numPages + idx * 50, numPages)

CompressIdle ==
  /\ pc = "idle"
  /\ file = [size |-> 0, numPages |-> 0]
  /\ level = "recommended"
  /\ ignoreSafety = FALSE
  /\ customConfig = NoConfig
  /\ analysis = [isTextHeavy |-> FALSE, pageCount |-> 0]
  /\ scale = 0 /\ quality = 0 /\ projectedDPI = 0
  /\ passNo = 0 /\ passKind = "none"
  /\ passScale = 0 /\ passQuality = 0 /\ passBase = 0
  /\ i = 0 /\ rendering = 0 /\ newPdf = <<>>
  /\ resultBytes = NoBytes
  /\ strategy = ""
  /\ progress = <<>>
  /\ renders = 0
  /\ passLens = <<>>
  /\ result = NoResult
  /\ error = "none"

\* a caller invokes compressPDFAdaptive(file, level, onProgress, ignoreSafety, customConfig)
Call ==
  /\ pc = "idle"
  /\ \E sz \in FileSizes, n \in 1..MaxPages :
       file' = [size |-> sz, numPages |-> n]
  /\ level' \in Levels
  /\ ignoreSafety' \in BOOLEAN
  /\ customConfig' \in {NoConfig} \cup CustomConfigs
  /\ pc' = "load"
  /\ UNCHANGED <<analysis, scale, quality, projectedDPI, passNo, passKind, passScale,
                 passQuality, passBase, i, rendering, newPdf, resultBytes, strategy,
                 progress, renders, passLens, result, error>>
  /\ UNCHANGED <<svars, rvars, evars, avars, uvars>>

\* lines 538-541: the file is read and the document loaded
LoadOk ==
  /\ pc = "load"
  /\ pc' = "analyze"
  /\ UNCHANGED <<file, level, ignoreSafety, customConfig, analysis, scale, quality,
                 projectedDPI, passNo, passKind, passScale, passQuality, passBase, i,
                 rendering, newPdf, resultBytes, strategy, progress, renders, passLens,
                 result, error>>
  /\ UNCHANGED <<svars, rvars, evars, avars, uvars>>

LoadFail ==
  /\ pc = "load"
  /\ pc' = "rejected"
  /\ error' = "load"
  /\ UNCHANGED <<file, level, ignoreSafety, customConfig, analysis, scale, quality,
                 projectedDPI, passNo, passKind, passScale, passQuality, passBase, i,
                 rendering, newPdf, resultBytes, strategy, progress, renders, passLens,
                 result>>
  /\ UNCHANGED <<svars, rvars, evars, avars, uvars>>

\* line 542: analyzePDF resolves with the profile, or with the default one
\* when anything in it failed (lines 62-65)
Analyze ==
  /\ pc = "analyze"
  /\ \/ \E h \in BOOLEAN : analysis' = [isTextHeavy |-> h, pageCount |-> file.numPages]
     \/ analysis' = [isTextHeavy |-> FALSE, pageCount |-> 0]
  /\ pc' = "gate"
  /\ UNCHANGED <<file, level, ignoreSafety, customConfig, scale, quality,
                 projectedDPI, passNo, passKind, passScale, passQuality, passBase, i,
                 rendering, newPdf, resultBytes, strategy, progress, renders, passLens,
                 result, error>>
  /\ UNCHANGED <<svars, rvars, evars, avars, uvars>>

\* lines 546-555
ResolvedConfig ==
  IF customConfig # NoConfig THEN customConfig
  ELSE getAdaptiveConfig(level, analysis.isTextHeavy)

\* performCompressionPass is entered (line 506): a fresh document, i = 1
EnterPass(kind, s, q, base) ==
  /\ passNo' = passNo + 1
  /\ passKind' = kind
  /\ passScale' = s
  /\ passQuality' = q
  /\ passBase' = base
  /\ i' = 1
  /\ rendering' = 0
  /\ newPdf' = <<>>
  /\ pc' = "pass"

\* lines 544-575: resolve the config, run the gate, start Pass 1
Gate ==
  /\ pc = "gate"
  /\ LET c == ResolvedConfig IN
       /\ scale' = c.scale
       /\ quality' = c.quality
       /\ projectedDPI' = c.projectedDPI
       /\ IF GateBlocks(ignoreSafety, c.projectedDPI)
            THEN /\ result' = BlockedResult(file, c.scale, c.quality, c.projectedDPI)
                 /\ pc' = "returned"
                 /\ UNCHANGED <<passNo, passKind, passScale, passQuality, passBase, i,
                                rendering, newPdf>>
            ELSE /\ EnterPass("first", c.scale, c.quality, 0)
                 /\ UNCHANGED result
  /\ UNCHANGED <<file, level, ignoreSafety, customConfig, analysis, resultBytes,
                 strategy, progress, renders, passLens, error>>
  /\ UNCHANGED <<svars, rvars, evars, avars, uvars>>

\* a loop that starts the next page without awaiting the one in flight
PageStartNoAwait ==
  /\ pc = "pass"
  /\ LET next == IF rendering = 0 THEN i ELSE rendering + 1
     IN /\ next <= file.numPages
        /\ progress' = Append(progress, ReportedProgress(passBase, next, file.numPages))
        /\ rendering' = next
  /\ UNCHANGED <<pc, file, level, ignoreSafety, customConfig, analysis, scale, quality,
                 projectedDPI, passNo, passKind, passScale, passQuality, passBase, i,
                 newPdf, resultBytes, strategy, renders, passLens, result, error>>
  /\ UNCHANGED <<svars, rvars, evars, avars, uvars>>

\* lines 507-508: the loop reports progress for page i and starts on it
PageStart ==
  /\ pc = "pass"
  /\ rendering = 0
  /\ i <= file.numPages
  /\ progress' = Append(progress, ReportedProgress(passBase, i, file.numPages))
  /\ rendering' = i
  /\ UNCHANGED <<pc, file, level, ignoreSafety, customConfig, analysis, scale, quality,
                 projectedDPI, passNo, passKind, passScale, passQuality, passBase, i,
                 newPdf, resultBytes, strategy, renders, passLens, result, error>>
  /\ UNCHANGED <<svars, rvars, evars, avars, uvars>>

\* lines 509-526: page i is fetched, rendered, encoded, embedded and appended
PageDone ==
  /\ pc = "pass"
  /\ rendering # 0
  /\ newPdf' = Append(newPdf, rendering)
  /\ renders' = renders + 1
  /\ i' = i + 1
  /\ rendering' = 0
  /\ UNCHANGED <<pc, file, level, ignoreSafety, customConfig, analysis, scale, quality,
                 projectedDPI, passNo, passKind, passScale, passQuality, passBase,
                 resultBytes, strategy, progress, passLens, result, error>>
  /\ UNCHANGED <<svars, rvars, evars, avars, uvars>>

\* a failing page skipped instead of thrown, as a `continue` would
PageFailSkips ==
  /\ pc = "pass"
  /\ rendering # 0
  /\ i' = i + 1
  /\ rendering' = 0
  /\ UNCHANGED <<pc, file, level, ignoreSafety, customConfig, analysis, scale, quality,
                 projectedDPI, passNo, passKind, passScale, passQuality, passBase,
                 newPdf, resultBytes, strategy, progress, renders, passLens, result,
                 error>>
  /\ UNCHANGED <<svars, rvars, evars, avars, uvars>>

\* lines 509, 513, 521, 523: getPage, getContext, render or embedJpg fails;
\* nothing catches it, the call rejects
PageFail ==
  /\ pc = "pass"
  /\ rendering # 0
  /\ error' \in ErrorKinds
  /\ pc' = "rejected"
  /\ rendering' = 0
  /\ UNCHANGED <<file, level, ignoreSafety, customConfig, analysis, scale, quality,
                 projectedDPI, passNo, passKind, passScale, passQuality, passBase, i,
                 newPdf, resultBytes, strategy, progress, renders, passLens, result>>
  /\ UNCHANGED <<svars, rvars, evars, avars, uvars>>

\* line 528: newPdf.save() fails
SaveFail ==
  /\ pc = "pass"
  /\ rendering = 0
  /\ i > file.numPages
  /\ error' = "save"
  /\ pc' = "rejected"
  /\ UNCHANGED <<file, level, ignoreSafety, customConfig, analysis, scale, quality,
                 projectedDPI, passNo, passKind, passScale, passQuality, passBase, i,
                 rendering, newPdf, resultBytes, strategy, progress, renders, passLens,
                 result>>
  /\ UNCHANGED <<svars, rvars, evars, avars, uvars>>

\* line 579, line 580, line 597
AggressiveScale(s) == (s * 7) \div 10
AggressiveQuality(q) == Max(3000, q - 2000)
SqueezeScale(s) == (s * 8) \div 10

\* the escalation decision without the !customConfig tests
EscalationIgnoresCustom(custom, lvl, ignore, len, f, s) ==
  IF len >= f.size
    THEN IF ~ignore /\ AggressiveScale(s) * DpiPerScale < SafetyFloor * ScaleUnit
           THEN "unsafe"
           ELSE "fallback"
  ELSE IF lvl = "extreme" /\ len * 10 > f.size * 8
    THEN IF ignore \/ SqueezeScale(s) * DpiPerScale >= SafetyFloor * ScaleUnit
           THEN "squeeze"
           ELSE "none"
  ELSE "none"

\* lines 578-606: what follows Pass 1 whose document has len bytes
Escalation(custom, lvl, ignore, len, f, s) ==
  IF custom = NoConfig /\ len >= f.size
    THEN IF ~ignore /\ AggressiveScale(s) * DpiPerScale < SafetyFloor * ScaleUnit
           THEN "unsafe"
           ELSE "fallback"
  ELSE IF custom = NoConfig /\ lvl = "extreme" /\ len * 10 > f.size * 8
    THEN IF ignore \/ SqueezeScale(s) * DpiPerScale >= SafetyFloor * ScaleUnit
           THEN "squeeze"
           ELSE "none"
  ELSE "none"

\* the adoption tests with the comparison turned round, and with <=
AdoptFallbackInverted(len2, f) == len2 > f.size
AdoptSqueezeLoose(len2, bytes) == len2 <= bytes.len

\* line 586 and line 600
AdoptFallback(len2, f) == len2 < f.size
AdoptSqueeze(len2, bytes) == len2 < bytes.len

\* lines 575-606, 608-636: Pass 1 has been serialized; escalate or return
Pass1Saved ==
  /\ pc = "pass" /\ passKind = "first"
  /\ rendering = 0 /\ i > file.numPages
  /\ \E len \in OutSizes :
       LET bytes == PassBytes(1, len, newPdf)
           next == Escalation(customConfig, level, ignoreSafety, len, file, scale)
       IN /\ passLens' = Append(passLens, len)
          /\ resultBytes' = bytes
          /\ CASE next = "fallback" ->
                    /\ strategy' = "First Pass"
                    /\ EnterPass("fallback", AggressiveScale(scale),
                                 AggressiveQuality(quality), 50)
                    /\ UNCHANGED result
               [] next = "squeeze" ->
                    /\ strategy' = "First Pass"
                    /\ EnterPass("squeeze", SqueezeScale(scale), quality, 50)
                    /\ UNCHANGED result
               [] next = "unsafe" ->
                    /\ strategy' = "Pass 2 Unsafe (Skipped)"
                    /\ result' = FinalResult(file, bytes, scale, quality, strategy')
                    /\ pc' = "returned"
                    /\ UNCHANGED <<passNo, passKind, passScale, passQuality, passBase,
                                   i, rendering, newPdf>>
               [] OTHER ->
                    /\ strategy' = "First Pass"
                    /\ result' = FinalResult(file, bytes, scale, quality, strategy')
                    /\ pc' = "returned"
                    /\ UNCHANGED <<passNo, passKind, passScale, passQuality, passBase,
                                   i, rendering, newPdf>>
  /\ UNCHANGED <<file, level, ignoreSafety, customConfig, analysis, scale, quality,
                 projectedDPI, progress, renders, error>>
  /\ UNCHANGED <<svars, rvars, evars, avars, uvars>>

\* a fallback pass that goes on to a squeeze pass instead of returning
FallbackSavedChains ==
  /\ pc = "pass" /\ passKind = "fallback"
  /\ rendering = 0 /\ i > file.numPages
  /\ \E len \in OutSizes :
       /\ passLens' = Append(passLens, len)
       /\ resultBytes' = PassBytes(2, len, newPdf)
  /\ EnterPass("squeeze", SqueezeScale(passScale), passQuality, 50)
  /\ UNCHANGED <<file, level, ignoreSafety, customConfig, analysis, scale, quality,
                 projectedDPI, strategy, progress, renders, result, error>>
  /\ UNCHANGED <<svars, rvars, evars, avars, uvars>>

\* lines 585-594, 608-636: the fallback pass has been serialized
FallbackSaved ==
  /\ pc = "pass" /\ passKind = "fallback"
  /\ rendering = 0 /\ i > file.numPages
  /\ \E len \in OutSizes :
       /\ passLens' = Append(passLens, len)
       /\ IF AdoptFallback(len, file)
            THEN /\ resultBytes' = PassBytes(2, len, newPdf)
                 /\ scale' = passScale
                 /\ quality' = passQuality
                 /\ strategy' = "Adaptive Fallback"
            ELSE /\ resultBytes' = OriginalBytes(file)
                 /\ strategy' = "No Reduction Possible"
                 /\ UNCHANGED <<scale, quality>>
  /\ result' = FinalResult(file, resultBytes', scale', quality', strategy')
  /\ pc' = "returned"
  /\ UNCHANGED <<file, level, ignoreSafety, customConfig, analysis, projectedDPI,
                 passNo, passKind, passScale, passQuality, passBase, i, rendering,
                 newPdf, progress, renders, error>>
  /\ UNCHANGED <<svars, rvars, evars, avars, uvars>>

\* lines 599-604, 608-636: the squeeze pass has been serialized
SqueezeSaved ==
  /\ pc = "pass" /\ passKind = "squeeze"
  /\ rendering = 0 /\ i > file.numPages
  /\ \E len \in OutSizes :
       /\ passLens' = Append(passLens, len)
       /\ IF AdoptSqueeze(len, resultBytes)
            THEN /\ resultBytes' = PassBytes(2, len, newPdf)
                 /\ scale' = passScale
                 /\ strategy' = "Adaptive Squeeze"
            ELSE UNCHANGED <<resultBytes, scale, strategy>>
  /\ result' = FinalResult(file, resultBytes', scale', quality, strategy')
  /\ pc' = "returned"
  /\ UNCHANGED <<file, level, ignoreSafety, customConfig, analysis, quality,
                 projectedDPI, passNo, passKind, passScale, passQuality, passBase, i,
                 rendering, newPdf, progress, renders, error>>
  /\ UNCHANGED <<svars, rvars, evars, avars, uvars>>

\* ------------------------------------------------------------------------
\* Single-pass compressPDFAdaptive (src/services/pdfService.ts)
\* ------------------------------------------------------------------------
\* getAdaptiveConfig of pdfService.ts: targetDPI from dpiMap,
\* scale = Math.min(1.0, targetDPI / 144); isTextHeavy is not read
svcGetAdaptiveConfig(lvl, isTextHeavy) ==
  LET targetDPI == IF lvl = "extreme" THEN 72
                   ELSE IF lvl = "recommended" THEN 144 ELSE 200
  IN [scale |-> Min(ScaleUnit, (targetDPI * ScaleUnit) \div 144),
      quality |-> IF lvl = "extreme" THEN 5000
                  ELSE IF lvl = "recommended" THEN 7500 ELSE 9000,
      projectedDPI |-> targetDPI]

\* configs a caller passes as customConfig
SvcCustomConfigs ==
  {[scale |-> 4000, quality |-> 5000, projectedDPI |-> 58],
   [scale |-> 10000, quality |-> 7500, projectedDPI |-> 186]}

\* line 584
SvcGateBlocks(override, dpi) == ~override /\ dpi < SvcSafetyFloor

\* lines 585-593
SvcBlockedResult(c) ==
  [data |-> NoBytes, status |-> "blocked",
   meta |-> [compressedSize |-> 0, projectedDPI |-> c.projectedDPI,
             strategyUsed |-> "Blocked (Low DPI)"]]

\* lines 630-638
SvcSuccessResult(saved, c) ==
  [data |-> saved, status |-> "success",
   meta |-> [compressedSize |-> saved.len, projectedDPI |-> c.projectedDPI,
             strategyUsed |-> "Adaptive Rasterization"]]

SvcIdle ==
  /\ svcPc = "idle"
  /\ svcFile = [size |-> 0, numPages |-> 0]
  /\ svcLevel = "recommended"
  /\ svcOverride = FALSE
  /\ svcCustom = NoConfig
  /\ svcConfig = NoConfig
  /\ svcI = 0 /\ svcRendering = 0 /\ svcNewPdf = <<>>
  /\ svcProgress = <<>>
  /\ svcResult = NoResult
  /\ svcError = "none"

SvcCall ==
  /\ svcPc = "idle"
  /\ \E sz \in FileSizes, n \in 1..MaxPages :
       svcFile' = [size |-> sz, numPages |-> n]
  /\ svcLevel' \in Levels
  /\ svcOverride' \in BOOLEAN
  /\ svcCustom' \in {NoConfig} \cup SvcCustomConfigs
  /\ svcPc' = "gate"
  /\ UNCHANGED <<svcConfig, svcI, svcRendering, svcNewPdf, svcProgress, svcResult,
                 svcError>>
  /\ UNCHANGED <<cvars, rvars, evars, avars, uvars>>

\* lines 580-594
SvcGate ==
  /\ svcPc = "gate"
  /\ svcConfig' = IF svcCustom # NoConfig THEN svcCustom
                  ELSE svcGetAdaptiveConfig(svcLevel, FALSE)
  /\ IF SvcGateBlocks(svcOverride, svcConfig'.projectedDPI)
       THEN /\ svcResult' = SvcBlockedResult(svcConfig')
            /\ svcPc' = "returned"
       ELSE /\ svcPc' = "load"
            /\ UNCHANGED svcResult
  /\ UNCHANGED <<svcFile, svcLevel, svcOverride, svcCustom, svcI, svcRendering,
                 svcNewPdf, svcProgress, svcError>>
  /\ UNCHANGED <<cvars, rvars, evars, avars, uvars>>

\* lines 596-599
SvcLoadOk ==
  /\ svcPc = "load"
  /\ svcPc' = "pass"
  /\ svcI' = 1
  /\ svcNewPdf' = <<>>
  /\ UNCHANGED <<svcFile, svcLevel, svcOverride, svcCustom, svcConfig, svcRendering,
                 svcProgress, svcResult, svcError>>
  /\ UNCHANGED <<cvars, rvars, evars, avars, uvars>>

SvcLoadFail ==
  /\ svcPc = "load"
  /\ svcPc' = "rejected"
  /\ svcError' = "load"
  /\ UNCHANGED <<svcFile, svcLevel, svcOverride, svcCustom, svcConfig, svcI,
                 svcRendering, svcNewPdf, svcProgress, svcResult>>
  /\ UNCHANGED <<cvars, rvars, evars, avars, uvars>>

\* lines 601-602: onProgress((i / numPages) * 90)
SvcPageStart ==
  /\ svcPc = "pass"
  /\ svcRendering = 0
  /\ svcI <= svcFile.numPages
  /\ svcProgress' = Append(svcProgress, [num |-> svcI * 90, den |-> svcFile.numPages])
  /\ svcRendering' = svcI
  /\ UNCHANGED <<svcPc, svcFile, svcLevel, svcOverride, svcCustom, svcConfig, svcI,
                 svcNewPdf, svcResult, svcError>>
  /\ UNCHANGED <<cvars, rvars, evars, avars, uvars>>

\* lines 608-609: getContext('2d') returns null and the loop continues
SvcPageSkip ==
  /\ svcPc = "pass"
  /\ svcRendering # 0
  /\ svcI' = svcI + 1
  /\ svcRendering' = 0
  /\ UNCHANGED <<svcPc, svcFile, svcLevel, svcOverride, svcCustom, svcConfig,
                 svcNewPdf, svcProgress, svcResult, svcError>>
  /\ UNCHANGED <<cvars, rvars, evars, avars, uvars>>

\* lines 610-626
SvcPageDone ==
  /\ svcPc = "pass"
  /\ svcRendering # 0
  /\ svcNewPdf' = Append(svcNewPdf, svcRendering)
  /\ svcI' = svcI + 1
  /\ svcRendering' = 0
  /\ UNCHANGED <<svcPc, svcFile, svcLevel, svcOverride, svcCustom, svcConfig,
                 svcProgress, svcResult, svcError>>
  /\ UNCHANGED <<cvars, rvars, evars, avars, uvars>>

\* lines 603, 612, 615, 617: getPage, render, fetch or embedJpg fails
SvcPageFail ==
  /\ svcPc = "pass"
  /\ svcRendering # 0
  /\ svcError' \in {"getPage", "render", "fetch", "embed"}
  /\ svcPc' = "rejected"
  /\ svcRendering' = 0
  /\ UNCHANGED <<svcFile, svcLevel, svcOverride, svcCustom, svcConfig, svcI,
                 svcNewPdf, svcProgress, svcResult>>
  /\ UNCHANGED <<cvars, rvars, evars, avars, uvars>>

\* lines 629-638
SvcSaved ==
  /\ svcPc = "pass"
  /\ svcRendering = 0
  /\ svcI > svcFile.numPages
  /\ \E len \in OutSizes :
       svcResult' = SvcSuccessResult(PassBytes(1, len, svcNewPdf), svcConfig)
  /\ svcPc' = "returned"
  /\ UNCHANGED <<svcFile, svcLevel, svcOverride, svcCustom, svcConfig, svcI,
                 svcRendering, svcNewPdf, svcProgress, svcError>>
  /\ UNCHANGED <<cvars, rvars, evars, avars, uvars>>

SvcSaveFail ==
  /\ svcPc = "pass"
  /\ svcRendering = 0
  /\ svcI > svcFile.numPages
  /\ svcError' = "save"
  /\ svcPc' = "rejected"
  /\ UNCHANGED <<svcFile, svcLevel, svcOverride, svcCustom, svcConfig, svcI,
                 svcRendering, svcNewPdf, svcProgress, svcResult>>
  /\ UNCHANGED <<cvars, rvars, evars, avars, uvars>>

\* ------------------------------------------------------------------------
\* Resolver harness: getAdaptiveConfig and getInterpolatedConfig applied
\* ------------------------------------------------------------------------
CfgIdle ==
  /\ cfgHeavy = FALSE
  /\ cfgValue = 0
  /\ cfgLevels = {}
  /\ cfgSlider = NoConfig

CfgInit ==
  /\ cfgHeavy \in BOOLEAN
  /\ cfgValue \in 0..MaxSlider
  /\ cfgLevels = {}
  /\ cfgSlider = NoConfig

ResolveLevel ==
  /\ \E l \in Levels :
       /\ \A r \in cfgLevels : r.level # l
       /\ cfgLevels' = cfgLevels \cup {[level |-> l, cfg |-> getAdaptiveConfig(l, cfgHeavy)]}
  /\ UNCHANGED <<cfgHeavy, cfgValue, cfgSlider>>
  /\ UNCHANGED <<cvars, svars, evars, avars, uvars>>

ResolveSlider ==
  /\ cfgSlider = NoConfig
  /\ cfgSlider' = getInterpolatedConfig(cfgValue, cfgHeavy)
  /\ UNCHANGED <<cfgHeavy, cfgValue, cfgLevels>>
  /\ UNCHANGED <<cvars, svars, evars, avars, uvars>>

\* ------------------------------------------------------------------------
\* Estimator harness: calculateTargetSize and generatePreviewPair's estimate
\* ------------------------------------------------------------------------
OrigSizes ==
  {n \in UNION {{k * 1024 - 1, k * 1024, k * 1024 + 1} : k \in 0..MaxOrigK} : n >= 0}

UrlLens == (0..MaxUrlLen) \cup {HeadLen + 1024 * k : k \in 0..MaxRawK}

EstIdle ==
  /\ estIn = [originalSize |-> 0, level |-> "recommended", isTextHeavy |-> FALSE,
              urlLen |-> 0, pageCount |-> 0]
  /\ estDone = {}
  /\ estTarget = 0
  /\ estTotal = 0

EstInit ==
  /\ estIn \in [originalSize : OrigSizes, level : Levels, isTextHeavy : BOOLEAN,
                urlLen : UrlLens, pageCount : 0..MaxPageCount]
  /\ estDone = {}
  /\ estTarget = 0
  /\ estTotal = 0

TargetSize ==
  /\ "target" \notin estDone
  /\ estDone' = estDone \cup {"target"}
  /\ estTarget' = calculateTargetSize(estIn.originalSize, estIn.level, estIn.isTextHeavy)
  /\ UNCHANGED <<estIn, estTotal>>
  /\ UNCHANGED <<cvars, svars, rvars, avars, uvars>>

\* lines 700-707: the estimate of generatePreviewPair, always with isTextHeavy = false
PreviewEstimate ==
  /\ "preview" \notin estDone
  /\ estDone' = estDone \cup {"preview"}
  /\ estTotal' = calculateProjectedFileSize(estIn.urlLen, estIn.pageCount,
                                            estIn.originalSize, FALSE)
  /\ UNCHANGED <<estIn, estTarget>>
  /\ UNCHANGED <<cvars, svars, rvars, avars, uvars>>

\* ------------------------------------------------------------------------
\* analyzePDF (src/unnamed/part_000, identical in src/services/pdfService.ts)
\* ------------------------------------------------------------------------
SamplePages == 3        \* Math.min(numPages, 3)
TextThreshold == 20     \* avgTextItems > 20

\* textContent.items.length of a page: none, or around the threshold
ItemCounts == {0} \cup ((TextThreshold - ItemSpread)..(TextThreshold + ItemSpread))

NoAnalysis == [isTextHeavy |-> FALSE, pageCount |-> -1]     \* promise pending
AnalysisFailed == [isTextHeavy |-> FALSE, pageCount |-> 0]  \* the catch block's value

MaxPagesToCheck(numPages) == Min(numPages, SamplePages)

IsTextHeavyAtThreshold(total, checked) == total >= TextThreshold * checked

\* totalTextItems / maxPagesToCheck > 20; 0 / 0 is NaN and NaN > 20 is false
IsTextHeavy(total, checked) == checked > 0 /\ total > TextThreshold * checked

AnIdle ==
  /\ anPc = "idle"
  /\ anCaller = "none"
  /\ anNumPages = 0
  /\ anI = 0
  /\ anPage = 0
  /\ anTotal = 0
  /\ anRead = <<>>
  /\ anFailed = "none"
  /\ anResult = NoAnalysis

\* analyzePDF(file) is entered with fresh locals
AnEnter(caller, numPages) ==
  /\ anPc' = "load"
  /\ anCaller' = caller
  /\ anNumPages' = numPages
  /\ anI' = 0
  /\ anPage' = 0
  /\ anTotal' = 0
  /\ anRead' = <<>>
  /\ anFailed' = "none"
  /\ anResult' = NoAnalysis

\* the resolved value is consumed and the call's locals are gone
AnLeave ==
  /\ anPc' = "idle"
  /\ anCaller' = "none"
  /\ anNumPages' = 0
  /\ anI' = 0
  /\ anPage' = 0
  /\ anTotal' = 0
  /\ anRead' = <<>>
  /\ anFailed' = "none"
  /\ anResult' = NoAnalysis

\* catch (e): log and resolve with the fixed value
AnCatch(step) ==
  /\ anFailed' = step
  /\ anResult' = AnalysisFailed
  /\ anPc' = "resolved"
  /\ UNCHANGED <<anCaller, anNumPages, anI, anPage, anTotal, anRead>>

\* the component's effect analyses the selected file
AnCall ==
  /\ pc = "idle"
  /\ anPc = "idle"
  /\ \E n \in 0..MaxAnPages : AnEnter("component", n)
  /\ UNCHANGED <<cvars, svars, rvars, evars, uvars>>

\* readFileAsArrayBuffer and getDocument resolve
AnLoadOk ==
  /\ anPc = "load"
  /\ anPc' = "loop"
  /\ anI' = 1
  /\ UNCHANGED <<anCaller, anNumPages, anPage, anTotal, anRead, anFailed, anResult>>
  /\ UNCHANGED <<cvars, svars, rvars, evars, uvars>>

AnLoadFail ==
  /\ anPc = "load"
  /\ \E step \in {"read", "load"} : AnCatch(step)
  /\ UNCHANGED <<cvars, svars, rvars, evars, uvars>>

\* pdf.getPage(i) resolves
AnGetPage ==
  /\ anPc = "loop"
  /\ anPage = 0
  /\ anI <= MaxPagesToCheck(anNumPages)
  /\ anPage' = anI
  /\ UNCHANGED <<anPc, anCaller, anNumPages, anI, anTotal, anRead, anFailed, anResult>>
  /\ UNCHANGED <<cvars, svars, rvars, evars, uvars>>

\* page.getTextContent() resolves; totalTextItems += items.length; i++
AnTextContent ==
  /\ anPc = "loop"
  /\ anPage # 0
  /\ \E n \in ItemCounts :
       /\ anTotal' = anTotal + n
       /\ anRead' = Append(anRead, [page |-> anPage, items |-> n])
  /\ anPage' = 0
  /\ anI' = anI + 1
  /\ UNCHANGED <<anPc, anCaller, anNumPages, anFailed, anResult>>
  /\ UNCHANGED <<cvars, svars, rvars, evars, uvars>>

AnPageFailThrows ==
  /\ anPc = "loop"
  /\ \/ anPage = 0 /\ anI <= MaxPagesToCheck(anNumPages) /\ anFailed' = "getPage"
     \/ anPage # 0 /\ anFailed' = "getTextContent"
  /\ anPc' = "rejected"
  /\ UNCHANGED <<anCaller, anNumPages, anI, anPage, anTotal, anRead, anResult>>
  /\ UNCHANGED <<cvars, svars, rvars, evars, uvars>>

\* getPage or getTextContent rejects inside the try block
AnPageFail ==
  /\ anPc = "loop"
  /\ \/ anPage = 0 /\ anI <= MaxPagesToCheck(anNumPages) /\ AnCatch("getPage")
     \/ anPage # 0 /\ AnCatch("getTextContent")
  /\ UNCHANGED <<cvars, svars, rvars, evars, uvars>>

\* the loop is over: average and return
AnReturn ==
  /\ anPc = "loop"
  /\ anPage = 0
  /\ anI > MaxPagesToCheck(anNumPages)
  /\ anResult' = [isTextHeavy |-> IsTextHeavy(anTotal, MaxPagesToCheck(anNumPages)),
                  pageCount |-> anNumPages]
  /\ anPc' = "resolved"
  /\ UNCHANGED <<anCaller, anNumPages, anI, anPage, anTotal, anRead, anFailed>>
  /\ UNCHANGED <<cvars, svars, rvars, evars, uvars>>

\* compressPDFAdaptive is called while no analysis is under way
AnCompressCall ==
  /\ anPc = "idle"
  /\ Call

\* const analysis = await analyzePDF(file): the call
AnalyzeStart ==
  /\ pc = "analyze"
  /\ anPc = "idle"
  /\ AnEnter("compress", file.numPages)
  /\ UNCHANGED <<cvars, svars, rvars, evars, uvars>>

\* const analysis = await analyzePDF(file): the continuation
AnalyzeAwait ==
  /\ pc = "analyze"
  /\ anPc = "resolved"
  /\ anCaller = "compress"
  /\ analysis' = anResult
  /\ pc' = "gate"
  /\ AnLeave
  /\ UNCHANGED <<file, level, ignoreSafety, customConfig, scale, quality,
                 projectedDPI, passNo, passKind, passScale, passQuality, passBase, i,
                 rendering, newPdf, resultBytes, strategy, progress, renders, passLens,
                 result, error>>
  /\ UNCHANGED <<svars, rvars, evars, uvars>>

\* ------------------------------------------------------------------------
\* ReadabilityPreview (src/unnamed/part_001, same logic in src/unnamed/part_002)
\* ------------------------------------------------------------------------
\* useEffect of lines 30-35: the slider position approximating a DPI
InitialSlider(dpi) ==
  MathRound(Max(0, Min(100 * (144 - 43), (dpi - 43) * 100)), 144 - 43)

ClearTimeoutNoop(timers, ref) == timers

\* clearTimeout(debounceRef.current); a timeout that already ran is not in the set
ClearTimeout(timers, ref) == {t \in timers : t.id # ref}

\* a timeout runs when its delay has elapsed, before any later event
TimerDue == \E t \in pvTimers : t.left = 0

PvIdle ==
  /\ pvPc = "unmounted"
  /\ pvHeavy = FALSE
  /\ pvSlider = 50
  /\ pvConfig = NoConfig
  /\ pvLoading = TRUE
  /\ pvImages = NoConfig
  /\ pvEstimate = NoConfig
  /\ pvTimers = {}
  /\ pvRef = 0
  /\ pvCalls = {}
  /\ pvSince = 0
  /\ pvChanges = <<>>
  /\ pvStarted = <<>>

\* everything but the preview
pvOthers == <<cvars, svars, rvars, evars, avars, kvars, ovars>>

\* the component mounts: both mount effects run, the second calls generate
PvMount ==
  /\ pvPc = "unmounted"
  /\ \E h \in BOOLEAN, l \in Levels :
       LET initialConfig == getAdaptiveConfig(l, h)
       IN /\ pvHeavy' = h
          /\ pvConfig' = initialConfig
          /\ pvSlider' = InitialSlider(initialConfig.projectedDPI)
          /\ pvCalls' = {[id |-> 0, cfg |-> initialConfig]}
  /\ pvLoading' = TRUE
  /\ pvPc' = "mounted"
  /\ UNCHANGED <<pvImages, pvEstimate, pvTimers, pvRef, pvSince, pvChanges, pvStarted>>
  /\ UNCHANGED pvOthers

\* handleSliderChange: the slider moves to another position
SliderChange ==
  /\ pvPc = "mounted"
  /\ ~TimerDue
  /\ Len(pvChanges) < MaxChanges
  /\ \E val \in CustomSliderValues :
       LET newConfig == getInterpolatedConfig(val, pvHeavy)
           id == Len(pvChanges) + 1
       IN /\ val # pvSlider
          /\ pvSlider' = val
          /\ pvConfig' = newConfig
          /\ pvTimers' = ClearTimeout(pvTimers, pvRef)
                           \cup {[id |-> id, cfg |-> newConfig, left |-> DebounceTicks]}
          /\ pvRef' = id
          /\ pvChanges' = Append(pvChanges, [val |-> val, gap |-> pvSince])
  /\ pvLoading' = TRUE
  /\ pvSince' = 0
  /\ UNCHANGED <<pvPc, pvHeavy, pvImages, pvEstimate, pvCalls, pvStarted>>
  /\ UNCHANGED pvOthers

\* time passes
PvTick ==
  /\ pvPc = "mounted"
  /\ ~TimerDue
  /\ pvTimers # {} \/ pvSince < DebounceTicks
  /\ pvTimers' = {[t EXCEPT !.left = t.left - 1] : t \in pvTimers}
  /\ pvSince' = Min(pvSince + 1, DebounceTicks)
  /\ UNCHANGED <<pvPc, pvHeavy, pvSlider, pvConfig, pvLoading, pvImages, pvEstimate,
                 pvRef, pvCalls, pvChanges, pvStarted>>
  /\ UNCHANGED pvOthers

\* the timeout callback: generate(newConfig) up to its await
TimerFire ==
  /\ pvPc = "mounted"
  /\ \E t \in pvTimers :
       /\ t.left = 0
       /\ pvTimers' = pvTimers \ {t}
       /\ pvCalls' = pvCalls \cup {[id |-> t.id, cfg |-> t.cfg]}
       /\ pvStarted' = Append(pvStarted,
                              [change |-> t.id, cfg |-> t.cfg, elapsed |-> pvSince])
  /\ pvLoading' = TRUE
  /\ UNCHANGED <<pvPc, pvHeavy, pvSlider, pvConfig, pvImages, pvEstimate, pvRef,
                 pvSince, pvChanges>>
  /\ UNCHANGED pvOthers

\* a generatePreviewPair call resolves: images, estimate, then finally
GenerateDone ==
  /\ pvPc = "mounted"
  /\ \E c \in pvCalls :
       /\ pvCalls' = pvCalls \ {c}
       /\ pvImages' = c.cfg
       /\ pvEstimate' = c.cfg
  /\ pvLoading' = FALSE
  /\ UNCHANGED <<pvPc, pvHeavy, pvSlider, pvConfig, pvTimers, pvRef, pvSince,
                 pvChanges, pvStarted>>
  /\ UNCHANGED pvOthers

\* a generatePreviewPair call rejects: catch, then finally
GenerateFail ==
  /\ pvPc = "mounted"
  /\ \E c \in pvCalls : pvCalls' = pvCalls \ {c}
  /\ pvLoading' = FALSE
  /\ UNCHANGED <<pvPc, pvHeavy, pvSlider, pvConfig, pvImages, pvEstimate, pvTimers,
                 pvRef, pvSince, pvChanges, pvStarted>>
  /\ UNCHANGED pvOthers

\* ------------------------------------------------------------------------
\* CompressPDF component (src/components/Tools/CompressPDF.tsx)
\* ------------------------------------------------------------------------
Frac(n, d) == [num |-> n, den |-> d]
LeqFrac(a, b) == a.num * b.den <= b.num * a.den

NoFile == [id |-> 0, size |-> 0, numPages |-> 0, heavy |-> FALSE]

\* a first file and the one selected after it
KFileIds == {1, 2}

\* files a user drops: short or long, text-heavy or not
KFiles(id) ==
  [id : {id}, size : {MaxFileSize}, numPages : {1, MaxKPages}, heavy : BOOLEAN]

NoKResult ==
  [shown |-> FALSE, size |-> 0, reduction |-> 0, dpi |-> 0, strategy |-> "",
   warningType |-> "none", for |-> 0, forSize |-> 0, dataLen |-> 0,
   downloaded |-> FALSE]

NoKAnalysis == [isTextHeavy |-> FALSE, done |-> FALSE, of |-> 0]

NoRun ==
  [file |-> NoFile, level |-> "recommended", override |-> FALSE, custom |-> NoConfig,
   seen |-> FALSE, stage |-> "none", i |-> 0, pass |-> 0]

\* getAdaptiveConfig of the linked revision
KConfig(impl, lvl, heavy) ==
  IF impl = "svc" THEN svcGetAdaptiveConfig(lvl, heavy) ELSE getAdaptiveConfig(lvl, heavy)

\* configs the preview dialog hands to onConfirm
KConfirmConfigs(impl) == IF impl = "svc" THEN SvcCustomConfigs ELSE CustomConfigs

KIdle ==
  /\ kFile = NoFile
  /\ kNextId = 1
  /\ kLevel = "recommended"
  /\ kStatus = [isProcessing |-> FALSE, progress |-> Frac(0, 1)]
  /\ kResult = NoKResult
  /\ kShowPreview = FALSE
  /\ kPreviewConfig = NoConfig
  /\ kAnalysis = NoKAnalysis
  /\ kAnalyses = {}
  /\ kRun = NoRun
  /\ kLog = <<>>
  /\ kDownloads = <<>>

\* ReorderPDF before a file is chosen (useState initial values, lines 341-348)
NoOFile == [numPages |-> 0, noContext |-> {}]
NoDrag == [id |-> -1, from |-> -1, slots |-> -1, last |-> -1, history |-> <<>>,
           historyIndex |-> -1]
NoSave == [file |-> NoOFile, indices |-> <<>>]

OIdle ==
  /\ oFile = NoOFile
  /\ oLoading = FALSE
  /\ oItems = <<>>
  /\ oHistory = <<>>
  /\ oHistoryIndex = -1
  /\ oLoads = {}
  /\ oDrag = NoDrag
  /\ oSaving = FALSE
  /\ oSaved = NoSave

UiIdle == PvIdle /\ KIdle /\ kImpl = "svc" /\ OIdle

\* everything but the component
kOthers == <<cvars, svars, rvars, evars, avars, pvars, ovars>>

\* handleFilesSelected, then the effect of lines 34-44 for a file
KSelect ==
  /\ kFile = NoFile
  /\ kNextId \in KFileIds
  /\ \E f \in KFiles(kNextId) :
       /\ kFile' = f
       /\ kAnalyses' = kAnalyses \cup {[id |-> f.id, heavy |-> f.heavy]}
  /\ kNextId' = kNextId + 1
  /\ kResult' = NoKResult
  /\ kShowPreview' = FALSE
  /\ UNCHANGED <<kImpl, kLevel, kStatus, kPreviewConfig, kAnalysis, kRun, kLog,
                 kDownloads>>
  /\ UNCHANGED kOthers

\* the Remove button (line 240), then the effect of lines 34-44 for null
KRemove ==
  /\ kFile # NoFile
  /\ ~kResult.shown
  /\ ~kShowPreview
  /\ kFile' = NoFile
  /\ kAnalysis' = NoKAnalysis
  /\ UNCHANGED <<kImpl, kNextId, kLevel, kStatus, kResult, kShowPreview,
                 kPreviewConfig, kAnalyses, kRun, kLog, kDownloads>>
  /\ UNCHANGED kOthers

\* the Compress Another File button (line 335) and the effect for null
KAnother ==
  /\ kFile # NoFile
  /\ kResult.shown
  /\ ~kShowPreview
  /\ kFile' = NoFile
  /\ kResult' = NoKResult
  /\ kAnalysis' = NoKAnalysis
  /\ UNCHANGED <<kImpl, kNextId, kLevel, kStatus, kShowPreview, kPreviewConfig,
                 kAnalyses, kRun, kLog, kDownloads>>
  /\ UNCHANGED kOthers

\* analyzePDF(file.file).then(...) of lines 38-40
KAnalysisDone ==
  /\ \E a \in kAnalyses :
       /\ kAnalyses' = kAnalyses \ {a}
       /\ kAnalysis' = [isTextHeavy |-> a.heavy, done |-> TRUE, of |-> a.id]
  /\ UNCHANGED <<kImpl, kFile, kNextId, kLevel, kStatus, kResult, kShowPreview,
                 kPreviewConfig, kRun, kLog, kDownloads>>
  /\ UNCHANGED kOthers

\* a level button (lines 272-275)
KSetLevel ==
  /\ kFile # NoFile
  /\ ~kStatus.isProcessing /\ ~kResult.shown /\ ~kShowPreview
  /\ \E l \in Levels : l # kLevel /\ kLevel' = l
  /\ UNCHANGED <<kImpl, kFile, kNextId, kStatus, kResult, kShowPreview,
                 kPreviewConfig, kAnalysis, kAnalyses, kRun, kLog, kDownloads>>
  /\ UNCHANGED kOthers

\* executeCompression up to its await (lines 87-99)
KExecute(override, custom) ==
  /\ kStatus' = [isProcessing |-> TRUE, progress |-> Frac(5, 1)]
  /\ kRun' = [file |-> kFile, level |-> kLevel, override |-> override,
              custom |-> custom, seen |-> kAnalysis.isTextHeavy,
              stage |-> "called", i |-> 0, pass |-> 1]
  /\ kLog' = <<Frac(5, 1)>>

\* the Compress PDF button: initiateCompression (lines 76-85)
KInitiate ==
  /\ kFile # NoFile
  /\ ~kStatus.isProcessing /\ kAnalysis.done /\ ~kResult.shown /\ ~kShowPreview
  /\ LET config == KConfig(kImpl, kLevel, kAnalysis.isTextHeavy)
     IN IF config.projectedDPI < 100 \/ kLevel = "extreme"
          THEN /\ kPreviewConfig' = config
               /\ kShowPreview' = TRUE
               /\ UNCHANGED <<kStatus, kRun, kLog>>
          ELSE /\ KExecute(FALSE, NoConfig)
               /\ UNCHANGED <<kPreviewConfig, kShowPreview>>
  /\ UNCHANGED <<kImpl, kFile, kNextId, kLevel, kResult, kAnalysis, kAnalyses,
                 kDownloads>>
  /\ UNCHANGED kOthers

\* the Preview button: triggerPreview (lines 70-74)
KTriggerPreview ==
  /\ kFile # NoFile
  /\ ~kStatus.isProcessing /\ kAnalysis.done /\ ~kResult.shown /\ ~kShowPreview
  /\ kPreviewConfig' = KConfig(kImpl, kLevel, kAnalysis.isTextHeavy)
  /\ kShowPreview' = TRUE
  /\ UNCHANGED <<kImpl, kFile, kNextId, kLevel, kStatus, kResult, kAnalysis,
                 kAnalyses, kRun, kLog, kDownloads>>
  /\ UNCHANGED kOthers

\* the dialog's onClose (line 351) or onImprove (lines 353-356)
KPreviewDismiss ==
  /\ kShowPreview /\ kFile # NoFile
  /\ kShowPreview' = FALSE
  /\ \/ UNCHANGED kLevel
     \/ kLevel' = "recommended"
  /\ UNCHANGED <<kImpl, kFile, kNextId, kStatus, kResult, kPreviewConfig, kAnalysis,
                 kAnalyses, kRun, kLog, kDownloads>>
  /\ UNCHANGED kOthers

\* the dialog's onConfirm (line 352)
KConfirm ==
  /\ kShowPreview /\ kFile # NoFile
  /\ kShowPreview' = FALSE
  /\ \E finalConfig \in {kPreviewConfig} \cup KConfirmConfigs(kImpl) :
       KExecute(TRUE, finalConfig)
  /\ UNCHANGED <<kImpl, kFile, kNextId, kLevel, kResult, kPreviewConfig, kAnalysis,
                 kAnalyses, kDownloads>>
  /\ UNCHANGED kOthers

\* the config the awaited call works with (pdfService.ts line 580, part_000
\* lines 546-555)
RunConfig(impl, run) ==
  IF run.custom # NoConfig THEN run.custom
  ELSE IF impl = "svc" THEN svcGetAdaptiveConfig(run.level, FALSE)
  ELSE getAdaptiveConfig(run.level, run.file.heavy)

RunBlocked(impl, run) ==
  IF impl = "svc" THEN SvcGateBlocks(run.override, RunConfig(impl, run).projectedDPI)
  ELSE GateBlocks(run.override, RunConfig(impl, run).projectedDPI)

\* the value the awaited call hands to onProgress for its next page
RunProgress(impl, run) ==
  IF impl = "svc" THEN Frac((run.i + 1) * 90, run.file.numPages)
  ELSE Frac(ReportedProgress(IF run.pass = 1 THEN 0 ELSE 50, run.i + 1,
                             run.file.numPages), 1)

\* the results the awaited call can resolve with after its last page
RunResults(impl, run) ==
  LET c == RunConfig(impl, run)
      pages == [k \in 1..run.file.numPages |-> k]
  IN IF impl = "svc"
       THEN {SvcSuccessResult(PassBytes(1, len, pages), c) : len \in OutSizes}
       ELSE {FinalResult(run.file, PassBytes(run.pass, len, pages), c.scale,
                         c.quality, "First Pass") : len \in OutSizes}

IsUnchangedStrict(finalSize, fileSize) == finalSize > fileSize

\* line 111
IsUnchanged(finalSize, fileSize) == finalSize >= fileSize

\* lines 114-116
WarningType(dpi) == IF dpi < 90 THEN "hard" ELSE IF dpi < 100 THEN "soft" ELSE "none"

\* the awaited call resolves 'blocked': lines 102-106
KBlocked ==
  /\ kRun.stage = "called"
  /\ RunBlocked(kImpl, kRun)
  /\ kStatus' = [isProcessing |-> FALSE, progress |-> Frac(0, 1)]
  /\ kPreviewConfig' = KConfig(kImpl, kRun.level, kRun.seen)
  /\ kShowPreview' = TRUE
  /\ kRun' = NoRun
  /\ UNCHANGED <<kImpl, kFile, kNextId, kLevel, kResult, kAnalysis, kAnalyses, kLog,
                 kDownloads>>
  /\ UNCHANGED kOthers

\* the awaited call reports a page: the callback of line 96
KProgress ==
  /\ kRun.stage \in {"called", "running"}
  /\ ~RunBlocked(kImpl, kRun)
  /\ kRun.i < kRun.file.numPages
  /\ kStatus' = [kStatus EXCEPT !.progress = RunProgress(kImpl, kRun)]
  /\ kLog' = Append(kLog, RunProgress(kImpl, kRun))
  /\ kRun' = [kRun EXCEPT !.stage = "running", !.i = kRun.i + 1]
  /\ UNCHANGED <<kImpl, kFile, kNextId, kLevel, kResult, kShowPreview,
                 kPreviewConfig, kAnalysis, kAnalyses, kDownloads>>
  /\ UNCHANGED kOthers

\* the multi-pass revision goes on to its fallback or squeeze pass
KSecondPass ==
  /\ kImpl = "multi"
  /\ kRun.stage = "running" /\ kRun.pass = 1 /\ kRun.custom = NoConfig
  /\ kRun.i = kRun.file.numPages
  /\ kRun' = [kRun EXCEPT !.pass = 2, !.i = 0]
  /\ UNCHANGED <<kImpl, kFile, kNextId, kLevel, kStatus, kResult, kShowPreview,
                 kPreviewConfig, kAnalysis, kAnalyses, kLog, kDownloads>>
  /\ UNCHANGED kOthers

\* the awaited call resolves 'success': lines 108-136
KResolve ==
  /\ kRun.stage = "running"
  /\ kRun.i = kRun.file.numPages
  /\ \E r \in RunResults(kImpl, kRun) :
       LET finalSize == r.meta.compressedSize
           isUnchanged == IsUnchanged(finalSize, kRun.file.size)
           download == ~isUnchanged /\ r.data.len > 0
       IN /\ kResult' =
               [shown |-> TRUE, size |-> finalSize,
                reduction |-> IF isUnchanged THEN 0
                              ELSE MathRound((kRun.file.size - finalSize) * 100,
                                             kRun.file.size),
                dpi |-> r.meta.projectedDPI, strategy |-> r.meta.strategyUsed,
                warningType |-> WarningType(r.meta.projectedDPI),
                for |-> kRun.file.id, forSize |-> kRun.file.size,
                dataLen |-> r.data.len, downloaded |-> download]
          /\ kDownloads' =
               IF download
                 THEN Append(kDownloads,
                             [file |-> kRun.file.id, selected |-> kFile.id,
                              len |-> r.data.len, compressedSize |-> finalSize,
                              fileSize |-> kRun.file.size])
                 ELSE kDownloads
  /\ kStatus' = [isProcessing |-> FALSE, progress |-> Frac(100, 1)]
  /\ kLog' = Append(kLog, Frac(100, 1))
  /\ kRun' = NoRun
  /\ UNCHANGED <<kImpl, kFile, kNextId, kLevel, kShowPreview, kPreviewConfig,
                 kAnalysis, kAnalyses>>
  /\ UNCHANGED kOthers

\* the awaited call rejects: lines 137-140
KReject ==
  /\ kRun.stage \in {"called", "running"}
  /\ ~RunBlocked(kImpl, kRun)
  /\ kStatus' = [isProcessing |-> FALSE, progress |-> Frac(0, 1)]
  /\ kRun' = NoRun
  /\ UNCHANGED <<kImpl, kFile, kNextId, kLevel, kResult, kShowPreview,
                 kPreviewConfig, kAnalysis, kAnalyses, kLog, kDownloads>>
  /\ UNCHANGED kOthers

\* ------------------------------------------------------------------------
\* ReorderPDF component (src/unnamed/part_002) and getPdfPagePreviews
\* ------------------------------------------------------------------------
\* everything but ReorderPDF
oOthers == <<cvars, svars, rvars, evars, avars, pvars, kvars>>

\* the PDFs the user picks: noContext holds the pages for which
\* canvas.getContext('2d') returns null
OFiles ==
  [numPages : {1, 3, MaxOPages}, noContext : {{}}] \cup
  [numPages : {3}, noContext : {{2}}]

\* getPdfPagePreviews: the pages whose thumbnail is pushed, in order
getPdfPagePreviews(f) ==
  LET maxPages == Min(f.numPages, PreviewCap)
  IN SelectSeq([p \in 1..maxPages |-> p], LAMBDA p : p \notin f.noContext)

\* urls.map((url, i) => ({ id: `page-${i}`, index: i, originalIndex: i, url }))
InitialPages(urls) == [k \in 1..Len(urls) |-> k - 1]

\* items.findIndex(p => p.id === id), -1 when absent
FindIndex(items, id) ==
  IF \E k \in 1..Len(items) : items[k] = id
    THEN (CHOOSE k \in 1..Len(items) : items[k] = id) - 1
    ELSE -1

\* the updater of performReorder (lines 561-569): splice out, splice in
Reorder(prevItems, id, targetIndex) ==
  LET currentIndex == FindIndex(prevItems, id)
      copy == SubSeq(prevItems, 1, currentIndex)
                \o SubSeq(prevItems, currentIndex + 2, Len(prevItems))
      at == Min(targetIndex, Len(copy))
  IN IF currentIndex = -1 THEN prevItems
     ELSE SubSeq(copy, 1, at) \o <<id>> \o SubSeq(copy, at + 1, Len(copy))

\* commitToHistory(newItems) in a render whose history and historyIndex are h and x
CommitToHistory(h, x, newItems) ==
  IF x >= 0 /\ x < Len(h) /\ newItems = h[x + 1]
    THEN [history |-> h, historyIndex |-> x, changed |-> FALSE]
    ELSE LET pushed == Append(SubSeq(h, 1, x + 1), newItems)
             newHistory == IF Len(pushed) > HistoryCap THEN Tail(pushed) ELSE pushed
         IN [history |-> newHistory, historyIndex |-> Len(newHistory) - 1,
             changed |-> TRUE]

\* handleFilesSelected, then the effect of lines 377-391 for a file
OSelect ==
  \E f \in OFiles :
    /\ oFile = NoOFile
    /\ Cardinality(oLoads) < MaxOLoads
    /\ oFile' = f
    /\ oLoading' = TRUE
    /\ oLoads' = oLoads \cup {f}
    /\ UNCHANGED <<oItems, oHistory, oHistoryIndex, oDrag, oSaving, oSaved>>
    /\ UNCHANGED oOthers

\* the Change File button, then the effect of lines 392-396
OChangeFile ==
  /\ oFile # NoOFile
  /\ oDrag = NoDrag
  /\ oFile' = NoOFile
  /\ oItems' = <<>>
  /\ oHistory' = <<>>
  /\ oHistoryIndex' = -1
  /\ UNCHANGED <<oLoading, oLoads, oDrag, oSaving, oSaved>>
  /\ UNCHANGED oOthers

\* a getPdfPagePreviews promise resolves: the then callback of lines 380-391
OPreviewsDone ==
  \E f \in oLoads :
    LET initialPages == InitialPages(getPdfPagePreviews(f))
    IN /\ oLoads' = oLoads \ {f}
       /\ oItems' = initialPages
       /\ oHistory' = <<initialPages>>
       /\ oHistoryIndex' = 0
       /\ oLoading' = FALSE
       /\ UNCHANGED <<oFile, oDrag, oSaving, oSaved>>
       /\ UNCHANGED oOthers

\* a getPdfPagePreviews promise rejects: the chain has no catch
OPreviewsFail ==
  \E f \in oLoads :
    /\ oLoads' = oLoads \ {f}
    /\ UNCHANGED <<oFile, oLoading, oItems, oHistory, oHistoryIndex, oDrag,
                   oSaving, oSaved>>
    /\ UNCHANGED oOthers

\* handlePointerDown on a rendered item: the listeners attached close over
\* this render's items, history and historyIndex
OPointerDown ==
  \E k \in 1..Min(Len(oItems), OReach) :
    /\ oFile # NoOFile
    /\ ~oLoading
    /\ oDrag = NoDrag
    /\ Len(oHistory) <= MaxOCommits
    /\ oDrag' = [id |-> oItems[k], from |-> k - 1, slots |-> Len(oItems) - 1,
                 last |-> -1, history |-> oHistory, historyIndex |-> oHistoryIndex]
    /\ UNCHANGED <<oFile, oLoading, oItems, oHistory, oHistoryIndex, oLoads,
                   oSaving, oSaved>>
    /\ UNCHANGED oOthers

\* handlePointerMove or the scroll loop, when performReorder updates the items;
\* targetIndex is what getTargetIndex returns for the pointer position
OPointerMove ==
  \E targetIndex \in 0..Min(oDrag.slots, OReach - 1) :
    /\ oDrag # NoDrag
    /\ targetIndex # oDrag.from
    /\ targetIndex # oDrag.last
    /\ oDrag' = [oDrag EXCEPT !.last = targetIndex]
    /\ oItems' = Reorder(oItems, oDrag.id, targetIndex)
    /\ UNCHANGED <<oFile, oLoading, oHistory, oHistoryIndex, oLoads, oSaving, oSaved>>
    /\ UNCHANGED oOthers

\* handlePointerUp: commitToHistory of the render the drag started in
OPointerUp ==
  /\ oDrag # NoDrag
  /\ LET c == CommitToHistory(oDrag.history, oDrag.historyIndex, oItems)
     IN /\ oHistory' = IF c.changed THEN c.history ELSE oHistory
        /\ oHistoryIndex' = IF c.changed THEN c.historyIndex ELSE oHistoryIndex
  /\ oDrag' = NoDrag
  /\ UNCHANGED <<oFile, oLoading, oItems, oLoads, oSaving, oSaved>>
  /\ UNCHANGED oOthers

\* handleUndo, from the button or the keyboard
OUndo ==
  /\ oHistoryIndex > 0
  /\ oItems' = oHistory[oHistoryIndex]
  /\ oHistoryIndex' = oHistoryIndex - 1
  /\ UNCHANGED <<oFile, oLoading, oHistory, oLoads, oDrag, oSaving, oSaved>>
  /\ UNCHANGED oOthers

\* handleRedo, from the button or the keyboard
ORedo ==
  /\ oHistoryIndex < Len(oHistory) - 1
  /\ oItems' = oHistory[oHistoryIndex + 2]
  /\ oHistoryIndex' = oHistoryIndex + 1
  /\ UNCHANGED <<oFile, oLoading, oHistory, oLoads, oDrag, oSaving, oSaved>>
  /\ UNCHANGED oOthers

\* handleSave up to the await of line 632
OSave ==
  /\ oFile # NoOFile
  /\ ~oSaving
  /\ oDrag = NoDrag
  /\ oSaving' = TRUE
  /\ oSaved' = [file |-> oFile, indices |-> oItems]
  /\ UNCHANGED <<oFile, oLoading, oItems, oHistory, oHistoryIndex, oLoads, oDrag>>
  /\ UNCHANGED oOthers

\* extractPages settles: lines 634-641 or the catch of line 643
OSaveSettled ==
  /\ oSaving
  /\ oSaving' = FALSE
  /\ UNCHANGED <<oFile, oLoading, oItems, oHistory, oHistoryIndex, oLoads, oDrag,
                 oSaved>>
  /\ UNCHANGED oOthers

\* ------------------------------------------------------------------------
\* Specifications
\* ------------------------------------------------------------------------
\* the multi-pass compressor
Init == CompressIdle /\ SvcIdle /\ CfgIdle /\ EstIdle /\ AnIdle /\ UiIdle
Next ==
  \/ Call
  \/ LoadOk
  \/ LoadFail
  \/ Analyze
  \/ Gate
  \/ PageStart
  \/ PageDone
  \/ PageFail
  \/ SaveFail
  \/ Pass1Saved
  \/ FallbackSaved
  \/ SqueezeSaved
Spec == Init /\ [][Next]_vars

\* the single-pass compressor
InitSvc == CompressIdle /\ SvcIdle /\ CfgIdle /\ EstIdle /\ AnIdle /\ UiIdle
NextSvc ==
  \/ SvcCall
  \/ SvcGate
  \/ SvcLoadOk
  \/ SvcLoadFail
  \/ SvcPageStart
  \/ SvcPageSkip
  \/ SvcPageDone
  \/ SvcPageFail
  \/ SvcSaved
  \/ SvcSaveFail
SpecSvc == InitSvc /\ [][NextSvc]_vars

\* the resolver
InitCfg == CompressIdle /\ SvcIdle /\ CfgInit /\ EstIdle /\ AnIdle /\ UiIdle
NextCfg ==
  \/ ResolveLevel
  \/ ResolveSlider
SpecCfg == InitCfg /\ [][NextCfg]_vars

\* the estimators
InitEst == CompressIdle /\ SvcIdle /\ CfgIdle /\ EstInit /\ AnIdle /\ UiIdle
NextEst ==
  \/ TargetSize
  \/ PreviewEstimate
SpecEst == InitEst /\ [][NextEst]_vars

\* analyzePDF, called by the component or awaited by the multi-pass compressor
InitAn == CompressIdle /\ SvcIdle /\ CfgIdle /\ EstIdle /\ AnIdle /\ UiIdle
NextAn ==
  \/ AnCall
  \/ AnLoadOk
  \/ AnLoadFail
  \/ AnGetPage
  \/ AnTextContent
  \/ AnPageFail
  \/ AnReturn
  \/ AnCompressCall
  \/ LoadOk
  \/ LoadFail
  \/ AnalyzeStart
  \/ AnalyzeAwait
  \/ Gate
  \/ PageStart
  \/ PageDone
  \/ PageFail
  \/ SaveFail
  \/ Pass1Saved
  \/ FallbackSaved
  \/ SqueezeSaved
SpecAn == InitAn /\ [][NextAn]_vars

\* the preview dialog
InitPv == CompressIdle /\ SvcIdle /\ CfgIdle /\ EstIdle /\ AnIdle /\ UiIdle
NextPv ==
  \/ PvMount
  \/ SliderChange
  \/ PvTick
  \/ TimerFire
  \/ GenerateDone
  \/ GenerateFail
SpecPv == InitPv /\ [][NextPv]_vars

\* the preview dialog when every generatePreviewPair call resolves
InitPvOk == CompressIdle /\ SvcIdle /\ CfgIdle /\ EstIdle /\ AnIdle /\ UiIdle
NextPvOk ==
  \/ PvMount
  \/ SliderChange
  \/ PvTick
  \/ TimerFire
  \/ GenerateDone
SpecPvOk == InitPvOk /\ [][NextPvOk]_vars

\* the CompressPDF component with either revision of the service
InitK == CompressIdle /\ SvcIdle /\ CfgIdle /\ EstIdle /\ AnIdle /\ PvIdle /\ KIdle
         /\ kImpl \in {"svc", "multi"} /\ OIdle
NextK ==
  \/ KSelect
  \/ KRemove
  \/ KAnother
  \/ KAnalysisDone
  \/ KSetLevel
  \/ KInitiate
  \/ KTriggerPreview
  \/ KPreviewDismiss
  \/ KConfirm
  \/ KBlocked
  \/ KProgress
  \/ KSecondPass
  \/ KResolve
  \/ KReject
SpecK == InitK /\ [][NextK]_vars

\* the multi-pass compressor when every adapter call returns, under fairness
InitLive == CompressIdle /\ SvcIdle /\ CfgIdle /\ EstIdle /\ AnIdle /\ UiIdle
NextLive ==
  \/ Call
  \/ LoadOk
  \/ Analyze
  \/ Gate
  \/ PageStart
  \/ PageDone
  \/ Pass1Saved
  \/ FallbackSaved
  \/ SqueezeSaved
SpecLive == InitLive /\ [][NextLive]_vars /\ WF_vars(NextLive)

\* the ReorderPDF component
InitO == CompressIdle /\ SvcIdle /\ CfgIdle /\ EstIdle /\ AnIdle /\ UiIdle
NextO ==
  \/ OSelect
  \/ OChangeFile
  \/ OPreviewsDone
  \/ OPreviewsFail
  \/ OPointerDown
  \/ OPointerMove
  \/ OPointerUp
  \/ OUndo
  \/ ORedo
  \/ OSave
  \/ OSaveSettled
SpecO == InitO /\ [][NextO]_vars

\* ------------------------------------------------------------------------
\* Properties
\* ------------------------------------------------------------------------
Returned == pc = "returned"
Success == Returned /\ result.status = "success"
Blocked == Returned /\ result.status = "blocked"
AllPages(n) == [k \in 1..n |-> k]
AbortLabel == "Aborted (Safety Lock)"

\* C1: a multi-pass result with status 'success' never reports, nor
\* carries, more bytes than the input file has: originalSize is the file's
\* size, compressedSize <= originalSize, and the payload is compressedSize
\* bytes long.
C1_NeverLarger ==
  Success =>
    /\ result.meta.originalSize = file.size
    /\ result.meta.compressedSize <= result.meta.originalSize
    /\ result.data.len = result.meta.compressedSize

\* two passes ran, both documents came out larger than the file, and the
\* call returned 'success'
C1_Witness ==
  /\ Success
  /\ Len(passLens) = 2
  /\ \A k \in 1..2 : passLens[k] > file.size

\* C2: when at least Pass 1 ran and no executed pass produced a document
\* strictly smaller than the file, the call returns 'success' with the
\* original bytes, compressedSize = originalSize = file.size and the abort
\* label; and the abort label never comes with transcoded bytes.
C2_NoReductionAborts ==
  /\ (Returned /\ passLens # <<>> /\ \A k \in DOMAIN passLens : passLens[k] >= file.size)
       => /\ result.status = "success"
          /\ result.data = OriginalBytes(file)
          /\ result.meta.compressedSize = file.size
          /\ result.meta.originalSize = file.size
          /\ result.meta.strategyUsed = AbortLabel
  /\ (Returned /\ result.meta.strategyUsed = AbortLabel)
       => result.data.kind = "original"

\* Pass 1 came out exactly as large as the file, Pass 2 was skipped as
\* unsafe, and the abort result was returned
C2_Witness ==
  /\ Returned
  /\ passLens = <<file.size>>
  /\ strategy = "Pass 2 Unsafe (Skipped)"
  /\ result.meta.strategyUsed = AbortLabel

\* C3: a 'blocked' result means performCompressionPass was never entered,
\* no page was rendered and onProgress was never called; it reports 0
\* iterations, empty data and the DPI the gate tested.  Level 'extreme' on
\* a text-heavy document without override and without customConfig is
\* blocked.
C3_BlockedBeforeAnyWork ==
  /\ Blocked =>
       /\ passNo = 0 /\ renders = 0 /\ rendering = 0 /\ newPdf = <<>>
       /\ progress = <<>>
       /\ passLens = <<>>
       /\ result.meta.iterations = 0
       /\ result.data.kind = "empty" /\ result.data.len = 0
       /\ result.meta.projectedDPI = ResolvedConfig.projectedDPI
  /\ (/\ level = "extreme" /\ analysis.isTextHeavy
      /\ ~ignoreSafety /\ customConfig = NoConfig
      /\ pc # "gate")
       => Blocked

\* level 'extreme' on a text-heavy document, no override, no customConfig:
\* blocked at the 49 DPI of scale 0.68
C3_Witness ==
  /\ Blocked
  /\ level = "extreme" /\ analysis.isTextHeavy
  /\ ~ignoreSafety /\ customConfig = NoConfig
  /\ file.numPages = MaxPages
  /\ result.meta.projectedDPI = 49

\* C4: once the gate has been evaluated the call is 'blocked' exactly when
\* overrideSafety is false and the resolved config's projectedDPI is below
\* 90; otherwise Pass 1 is entered; with overrideSafety the call is never
\* 'blocked'.
C4_GateIff ==
  /\ Returned =>
       (result.status = "blocked" <=> (~ignoreSafety /\ ResolvedConfig.projectedDPI < 90))
  /\ pc = "pass" => ~(~ignoreSafety /\ ResolvedConfig.projectedDPI < 90)
  /\ (pc \in {"pass", "returned"} /\ (ignoreSafety \/ ResolvedConfig.projectedDPI >= 90))
       => passNo >= 1
  /\ (Returned /\ ignoreSafety) => result.status # "blocked"

\* without override, a config projecting exactly 90 DPI got through the gate
C4_Witness ==
  /\ Success
  /\ ~ignoreSafety
  /\ projectedDPI = 90
  /\ passNo >= 1

\* C5: every single-pass result with status 'success' has compressedSize <=
\* the input file's size.
C5_SvcNeverLarger ==
  (svcPc = "returned" /\ svcResult.status = "success")
    => svcResult.meta.compressedSize <= svcFile.size

\* no result after an error, and whole documents only
C6_NoResultOnFailure ==
  /\ error # "none" => (pc = "rejected" /\ result.status = "none")
  /\ pc = "rejected" => (error # "none" /\ result.status = "none")
  /\ (Returned /\ result.data.kind = "transcoded")
       => result.data.pages = AllPages(file.numPages)
  /\ (pc = "pass" /\ rendering = 0) => newPdf = AllPages(i - 1)

\* A page the loop has started on is either appended or ends the call with
\* an error of the loop body; it is never left out.
C6_PageStep ==
  (pc = "pass" /\ rendering # 0) =>
    \/ pc' = "pass" /\ newPdf' = Append(newPdf, rendering) /\ error' = "none"
    \/ pc' = "rejected" /\ error' \in ErrorKinds /\ result' = result

\* C6: a failure while a page is fetched, rendered, encoded or embedded, in
\* any pass, rejects the call with that error and no result; a returned
\* transcoded document has exactly the pages 1..numPages in order.
C6_PassFailureRejects == []C6_NoResultOnFailure /\ [][C6_PageStep]_vars

\* the canvas context was unavailable on the second page of a second pass:
\* the call rejected although Pass 1 had produced a whole document
C6_Witness ==
  /\ pc = "rejected"
  /\ error = "context"
  /\ passNo = 2
  /\ newPdf = <<1>>
  /\ resultBytes.kind = "transcoded"

\* C7: every single-pass 'success' document has exactly the pages
\* 1..numPages in order.
C7_SvcAllPages ==
  (svcPc = "returned" /\ svcResult.status = "success")
    => svcResult.data.pages = AllPages(svcFile.numPages)

\* C8: every config of the resolver has projectedDPI = round(scale * 72)
\* for the scale it returns.
C8_DpiConsistent ==
  /\ \A r \in cfgLevels : r.cfg.projectedDPI = RoundDPI(r.cfg.scale)
  /\ cfgSlider # NoConfig => cfgSlider.projectedDPI = RoundDPI(cfgSlider.scale)

LevelRank(l) == IF l = "extreme" THEN 1 ELSE IF l = "recommended" THEN 2 ELSE 3

\* C9: for a fixed isTextHeavy, getAdaptiveConfig is strictly increasing
\* from extreme to recommended to less in scale, quality and projectedDPI.
C9_StrictOrdering ==
  \A a \in cfgLevels, b \in cfgLevels :
    LevelRank(a.level) < LevelRank(b.level) =>
      /\ a.cfg.scale < b.cfg.scale
      /\ a.cfg.quality < b.cfg.quality
      /\ a.cfg.projectedDPI < b.cfg.projectedDPI

\* all three levels resolved for a text-heavy document
C9_Witness ==
  /\ cfgHeavy
  /\ {r.level : r \in cfgLevels} = Levels

\* C10: calculateTargetSize and the estimate of generatePreviewPair lie in
\* [0, originalSize].
C10_EstimatesBounded ==
  /\ "target" \in estDone =>
       (0 <= estTarget /\ estTarget <= estIn.originalSize)
  /\ "preview" \in estDone =>
       (0 <= estTotal /\ estTotal <= estIn.originalSize)

\* a data URL shorter than the JPEG header, a page, and an estimate that the
\* 1.05 margin would have pushed over the original size
C10_Witness ==
  /\ estDone = {"target", "preview"}
  /\ estIn.urlLen < HeadLen
  /\ estIn.pageCount >= 1
  /\ estTotal = estIn.originalSize
  /\ MathFloor((estIn.urlLen - HeadLen) * 3, 4) * estIn.pageCount
       + PerPageOverhead * estIn.pageCount + FixedOverhead < estIn.originalSize

\* C11: with a customConfig that the gate lets through, exactly one pass
\* runs, at customConfig.scale and customConfig.quality; no fallback and no
\* squeeze pass runs whatever Pass 1 produced; the result is Pass 1's
\* document reported with those parameters, or the original bytes.
C11_CustomSinglePass ==
  customConfig # NoConfig =>
    /\ passNo <= 1
    /\ passKind \in {"none", "first"}
    /\ passNo = 1 =>
         (passScale = customConfig.scale /\ passQuality = customConfig.quality)
    /\ (Returned /\ result.status # "blocked") =>
         /\ passNo = 1 /\ Len(passLens) = 1
         /\ renders = file.numPages
         /\ \/ /\ result.data = PassBytes(1, passLens[1], AllPages(file.numPages))
               /\ result.meta.effectiveScale = customConfig.scale
               /\ result.meta.effectiveQuality = customConfig.quality
            \/ result.data = OriginalBytes(file)

\* level 'extreme' with override and a customConfig: Pass 1 came out larger
\* than the file, and the call returned after that single pass
C11_Witness ==
  /\ Returned
  /\ customConfig # NoConfig
  /\ level = "extreme" /\ ignoreSafety
  /\ passLens = <<file.size + 1>>
  /\ result.data = OriginalBytes(file)

\* C12: the values handed to onProgress within one call never decrease and
\* stay in [0,100]; the values of Pass 1 (the first numPages ones) lie in
\* [0,50], the values of a second pass in [50,100].
C12_ProgressMonotone ==
  /\ Len(progress) <= 2 * file.numPages
  /\ passNo <= 1 => Len(progress) <= file.numPages
  /\ passNo = 2 => Len(progress) >= file.numPages
  /\ \A k \in DOMAIN progress :
       /\ 0 <= progress[k] /\ progress[k] <= 100
       /\ k <= file.numPages => progress[k] <= 50
       /\ k > file.numPages => progress[k] >= 50
       /\ k > 1 => progress[k - 1] <= progress[k]

\* a second pass over a document of MaxPages pages has reported all its pages
C12_Witness ==
  /\ passNo = 2
  /\ file.numPages = MaxPages
  /\ Len(progress) = 2 * MaxPages
  /\ progress[MaxPages] = 50
  /\ progress[2 * MaxPages] = 100

\* C13: meta.iterations is the number of passes executed in the call.
C13_IterationsHonest ==
  Returned => result.meta.iterations = passNo


\* ------------------------------------------------------------------------
\* analyzePDF
\* ------------------------------------------------------------------------
RECURSIVE SumItems(_)
SumItems(read) == IF read = <<>> THEN 0 ELSE read[1].items + SumItems(Tail(read))

PagesRead == [k \in DOMAIN anRead |-> anRead[k].page]

\* C14: analyzePDF reads the text content of exactly pages 1..min(numPages, 3),
\* in order, and when nothing fails resolves with pageCount = numPages and
\* isTextHeavy true exactly when the items of the sampled pages average more
\* than 20 (an average of exactly 20, or zero sampled pages, is not text-heavy).
C14_SamplesFirstThree ==
  /\ Len(anRead) <= 3
  /\ Len(anRead) <= anNumPages
  /\ PagesRead = AllPages(Len(anRead))
  /\ (anPc = "resolved" /\ anFailed = "none") =>
       /\ \/ anNumPages <= 3 /\ Len(anRead) = anNumPages
          \/ anNumPages > 3 /\ Len(anRead) = 3
       /\ anResult.pageCount = anNumPages
       /\ anResult.isTextHeavy <=>
            (Len(anRead) > 0 /\ SumItems(anRead) > 20 * Len(anRead))

C14_Witness ==
  /\ anPc = "resolved" /\ anFailed = "none"
  /\ anNumPages = 4 /\ Len(anRead) = 3
  /\ SumItems(anRead) = 60
  /\ anRead[1].items # 20
  /\ ~anResult.isTextHeavy


\* C15: analyzePDF never rejects: a failure of the read, the load, getPage or
\* getTextContent resolves the promise with exactly {isTextHeavy: false,
\* pageCount: 0}; inside compressPDFAdaptive such a failure does not reject the
\* compression, which goes on with the configuration of a non-text-heavy file.
C15_AnalysisNeverRejects ==
  /\ anPc \in {"idle", "load", "loop", "resolved"}
  /\ anFailed # "none" =>
       /\ anPc = "resolved"
       /\ anResult = [isTextHeavy |-> FALSE, pageCount |-> 0]
  /\ (anCaller = "compress" /\ anFailed # "none") => (pc = "analyze" /\ error = "none")
  /\ (pc \in {"gate", "pass", "returned"} /\ analysis.pageCount # file.numPages) =>
       /\ analysis = [isTextHeavy |-> FALSE, pageCount |-> 0]
       /\ (pc # "gate" /\ customConfig = NoConfig /\ passNo <= 1) =>
            /\ scale = getAdaptiveConfig(level, FALSE).scale
            /\ quality = getAdaptiveConfig(level, FALSE).quality
            /\ projectedDPI = getAdaptiveConfig(level, FALSE).projectedDPI

C15_Witness ==
  /\ pc = "returned" /\ file.numPages = 2 /\ analysis.pageCount = 0
  /\ customConfig = NoConfig
  /\ result.status # "blocked" /\ result.data = PassBytes(1, passLens[1], AllPages(2))


\* ------------------------------------------------------------------------
\* Escalation
\* ------------------------------------------------------------------------
\* C16: when Pass 1 is not smaller than the original, no customConfig was given,
\* overrideSafety is false and scale x 0.7 projects below 90 DPI, Pass 2 is not
\* executed and the result carries the original bytes with strategyUsed
\* "No Reduction Possible" or "Pass 2 Unsafe (Skipped)".
C16_UnsafePass2Skipped ==
  (/\ Returned /\ result.status # "blocked"
   /\ customConfig = NoConfig /\ ~ignoreSafety
   /\ passLens[1] >= file.size
   /\ ((ResolvedConfig.scale * 7) \div 10) * 72 < 90 * ScaleUnit) =>
     /\ passNo = 1 /\ Len(passLens) = 1
     /\ result.data = OriginalBytes(file)
     /\ result.meta.strategyUsed \in {"No Reduction Possible", "Pass 2 Unsafe (Skipped)"}


\* C17: when Pass 2 runs, its output is returned, labelled 'Adaptive Fallback'
\* with the aggressive configuration's scale and quality, exactly when it is
\* strictly smaller than both the original file and Pass 1's output; in every
\* other case the original bytes are returned.
C17_FallbackAdoption ==
  (Returned /\ passKind = "fallback") =>
    LET p1 == passLens[1]
        p2 == passLens[2]
        base == ResolvedConfig
    IN /\ passNo = 2 /\ Len(passLens) = 2
       /\ IF p2 < file.size /\ p2 < p1
            THEN /\ result.data = PassBytes(2, p2, AllPages(file.numPages))
                 /\ result.meta.strategyUsed = "Adaptive Fallback"
                 /\ result.meta.compressedSize = p2
                 /\ result.meta.effectiveScale = ToFixed2((base.scale * 7) \div 10)
                 /\ result.meta.effectiveQuality =
                      ToFixed2(IF base.quality - 2000 > 3000 THEN base.quality - 2000
                               ELSE 3000)
            ELSE /\ result.data = OriginalBytes(file)
                 /\ result.meta.strategyUsed # "Adaptive Fallback"

C17_Witness ==
  /\ Returned /\ passKind = "fallback"
  /\ passLens[1] = file.size /\ passLens[2] = file.size - 1
  /\ result.meta.strategyUsed = "Adaptive Fallback"


\* C18: the squeeze pass runs only for level 'extreme' without a customConfig,
\* after a Pass 1 strictly smaller than the original yet larger than 80% of it,
\* and when the squeezed scale passes the safety check; it renders at Pass 1's
\* scale x 0.8 with Pass 1's quality, and its output replaces Pass 1's (label
\* 'Adaptive Squeeze') only if strictly smaller than Pass 1's; otherwise Pass 1's
\* bytes are returned with Pass 1's scale.
C18_SqueezePass ==
  passKind = "squeeze" =>
    LET base == ResolvedConfig
        p1 == passLens[1]
    IN /\ level = "extreme" /\ customConfig = NoConfig
       /\ p1 < file.size /\ 10 * p1 > 8 * file.size
       /\ ignoreSafety \/ ((base.scale * 8) \div 10) * 72 >= 90 * ScaleUnit
       /\ passNo = 2
       /\ passScale = (base.scale * 8) \div 10
       /\ passQuality = base.quality
       /\ Returned =>
            /\ Len(passLens) = 2
            /\ result.meta.effectiveQuality = ToFixed2(base.quality)
            /\ IF passLens[2] < p1
                 THEN /\ result.data = PassBytes(2, passLens[2], AllPages(file.numPages))
                      /\ result.meta.strategyUsed = "Adaptive Squeeze"
                      /\ result.meta.effectiveScale = ToFixed2((base.scale * 8) \div 10)
                 ELSE /\ result.data = PassBytes(1, p1, AllPages(file.numPages))
                      /\ result.meta.strategyUsed = "First Pass"
                      /\ result.meta.effectiveScale = ToFixed2(base.scale)

C18_Witness ==
  /\ Returned /\ passKind = "squeeze"
  /\ passLens[2] = passLens[1]
  /\ result.data.pass = 1


\* ------------------------------------------------------------------------
\* Sequential page loop
\* ------------------------------------------------------------------------
C19_OneAtATime ==
  /\ pc = "pass" =>
       /\ newPdf = AllPages(i - 1)
       /\ rendering \in {0, i}
       /\ rendering # 0 => i <= file.numPages
       /\ Len(passLens) = passNo - 1
  /\ passNo = 2 => Len(passLens) >= 1

C19_Step ==
  /\ (rendering' # 0 /\ rendering' # rendering) =>
       /\ rendering = 0
       /\ newPdf = AllPages(rendering' - 1)
       /\ newPdf' = newPdf
  /\ newPdf' # newPdf =>
       \/ /\ rendering # 0 /\ rendering' = 0
          /\ newPdf' = Append(newPdf, rendering)
       \/ /\ newPdf' = <<>> /\ rendering = 0 /\ passNo' = passNo + 1
  /\ passNo' = 2 /\ passNo = 1 =>
       /\ rendering = 0 /\ rendering' = 0
       /\ newPdf = AllPages(file.numPages)
       /\ passLens' = Append(passLens, passLens'[1])
       /\ Len(passLens) = 0

\* C19: at most one page is being rendered and encoded at any moment: page i+1
\* starts only after page i has been embedded and appended, pages are appended
\* in the order 1..numPages, and a second pass starts only after Pass 1 has
\* serialized its document.
C19_SequentialPages == []C19_OneAtATime /\ [][C19_Step]_vars

C19_Witness ==
  /\ pc = "pass" /\ passNo = 2 /\ file.numPages = 2
  /\ rendering = 2 /\ newPdf = <<1>>
  /\ Len(passLens) = 1


\* ------------------------------------------------------------------------
\* Preview estimate
\* ------------------------------------------------------------------------
\* bytes of page 1's JPEG, from the length of its data URL
PerPageBytes == ((estIn.urlLen - 23) * 3) \div 4

RawEstimate == PerPageBytes * estIn.pageCount + estIn.pageCount * 2048 + 5120

\* C20 as stated: estimatedTotalSize is perPageBytes*pageCount +
\* pageCount*2048 + 5120 clamped to [0, originalSize], and nothing else enters.
C20_PlainSumClamped ==
  "preview" \in estDone =>
    estTotal = Max(0, Min(RawEstimate, estIn.originalSize))

\* C20: estimatedTotalSize is perPageBytes*pageCount + pageCount*2048 + 5120,
\* increased by 5% (rounded down) and capped at originalSize.
C20_PaddedSumCapped ==
  "preview" \in estDone =>
    estTotal = Min(RawEstimate + RawEstimate \div 20, estIn.originalSize)

C20_Witness ==
  /\ "preview" \in estDone
  /\ estIn.pageCount = 1 /\ estIn.urlLen > 23
  /\ RawEstimate < estTotal /\ estTotal < estIn.originalSize


\* ------------------------------------------------------------------------
\* Preview debounce
\* ------------------------------------------------------------------------
\* change c ended its burst: no further change came within the delay
BurstEnded(c) ==
  \/ c < Len(pvChanges) /\ pvChanges[c + 1].gap >= DebounceTicks
  \/ /\ c = Len(pvChanges) /\ pvSince >= DebounceTicks
     /\ \A t \in pvTimers : t.id # c

StartedFor(c) == {k \in DOMAIN pvStarted : pvStarted[k].change = c}

C26_PreviewCurrent ==
  (pvPc = "mounted" /\ pvTimers = {} /\ pvCalls = {}) =>
    (pvImages = pvConfig /\ pvEstimate = pvConfig)


\* ------------------------------------------------------------------------
\* CompressPDF component
\* ------------------------------------------------------------------------
\* C22: during one compression run the displayed status.progress never
\* decreases, from the initial value set by executeCompression through every
\* value delivered by onProgress.
C22_ProgressNeverRegresses ==
  \A k \in DOMAIN kLog : k > 1 => LeqFrac(kLog[k - 1], kLog[k])


\* C27: whenever analysis.done is true for a selected file, analysis.isTextHeavy
\* is the result of analyzePDF on that file: an analysis started for an earlier
\* file never sets the analysis state used for a later one.
C27_AnalysisOfSelectedFile ==
  (kFile # NoFile /\ kAnalysis.done) =>
    (kAnalysis.of = kFile.id /\ kAnalysis.isTextHeavy = kFile.heavy)

\* C28: if the file is removed while a compressPDFAdaptive call is in flight,
\* the completion of that call neither triggers a download nor sets a result
\* shown for a file selected afterwards.
C28_InFlightResultDiscarded ==
  /\ \A k \in DOMAIN kDownloads : kDownloads[k].selected = kDownloads[k].file
  /\ (kResult.shown /\ kFile # NoFile) => kResult.for = kFile.id

\* C29: a download happens only for a result whose meta.compressedSize is
\* strictly smaller than file.size and whose data is non-empty, so the payload
\* downloaded is strictly smaller than the file; when there is no download of a
\* not-smaller result the displayed reduction is 0.
C29_DownloadOnlySmaller ==
  /\ \A k \in DOMAIN kDownloads :
       LET d == kDownloads[k]
       IN /\ d.compressedSize < d.fileSize
          /\ 0 < d.len /\ d.len < d.fileSize
  /\ kResult.shown =>
       /\ kResult.downloaded <=> (kResult.size < kResult.forSize /\ kResult.dataLen > 0)
       /\ kResult.size >= kResult.forSize => kResult.reduction = 0

C29_Witness ==
  /\ kImpl = "svc" /\ kResult.shown
  /\ kResult.size = kResult.forSize + 1 /\ kResult.dataLen = kResult.size
  /\ ~kResult.downloaded /\ kResult.reduction = 0
  /\ Len(kDownloads) = 1


\* ------------------------------------------------------------------------
\* Safety floor, squeeze reachability, termination
\* ------------------------------------------------------------------------
\* C23: with overrideSafety = false every executed pass runs at a scale with
\* round(scale * 72) >= 90 and every 'success' result has meta.projectedDPI >= 90,
\* for every level and text profile and every customConfig produced by
\* getInterpolatedConfig.
C23_FloorRespected ==
  ~ignoreSafety =>
    /\ passNo >= 1 => RoundDPI(passScale) >= 90
    /\ (Returned /\ result.status = "success") => result.meta.projectedDPI >= 90


\* C24: the squeeze pass is reachable only with overrideSafety = true: without
\* it and without a customConfig, level 'extreme' is blocked by the gate for
\* both text profiles, and no such call returns strategyUsed 'Adaptive Squeeze'.
C24_SqueezeNeedsOverride ==
  /\ passKind = "squeeze" => ignoreSafety
  /\ (Returned /\ ~ignoreSafety /\ customConfig = NoConfig /\ level = "extreme") =>
       (result.status = "blocked" /\ passNo = 0)
  /\ (Returned /\ ~ignoreSafety) => result.meta.strategyUsed # "Adaptive Squeeze"

C24_Witness ==
  /\ Returned /\ ~ignoreSafety /\ customConfig = NoConfig /\ level = "extreme"
  /\ analysis.isTextHeavy
  /\ result.status = "blocked" /\ result.meta.projectedDPI < 90


C25_AtMostTwoPasses ==
  /\ passNo <= 2
  /\ passNo = 1 => passKind = "first"
  /\ passNo = 2 => passKind \in {"fallback", "squeeze"}
  /\ Len(passLens) <= passNo
  /\ renders <= passNo * file.numPages
  /\ renders <= 2 * file.numPages

\* C25: a call executes at most two passes (the fallback and the squeeze pass
\* exclude each other and neither is repeated), hence at most 2*numPages page
\* renders; when every adapter call returns, the call eventually terminates
\* with a result.
C25_BoundedAndTerminates ==
  /\ []C25_AtMostTwoPasses
  /\ (pc = "load") ~> Returned

C25_Witness ==
  /\ Returned /\ passNo = 2 /\ passKind = "squeeze"
  /\ file.numPages = MaxPages /\ renders = 2 * MaxPages

\* ------------------------------------------------------------------------
\* ReorderPDF
\* ------------------------------------------------------------------------
\* indices lists every page of an n-page document exactly once
IsPagePermutation(indices, n) ==
  /\ Len(indices) = n
  /\ \A p \in 0..(n - 1) : \E k \in 1..Len(indices) : indices[k] = p

\* C30: the list of originalIndex values handed to extractPages is a
\* permutation of 0..numPages-1 of the file handed over with it.
C30_SavesEveryPageOnce ==
  oSaved # NoSave => IsPagePermutation(oSaved.indices, oSaved.file.numPages)

====
